---- MODULE Spec2Model ----
(***************************************************************************)
(* A model of the resume intelligence engine: the duration parser, the     *)
(* skill normalizer, the job matcher, the quality scorer, the section      *)
(* scan, the experience entry extractor, the skill profile, the experience *)
(* profile and the request pipeline of the API.                            *)
(*                                                                         *)
(* Text.  The duration parser works on a duration text with regular        *)
(* expressions.  The text is modelled as a sequence of tokens, a token     *)
(* being a maximal run the expressions treat as a unit:                    *)
(*   word   a run of letters (s: its text)                                 *)
(*   year   a number of four digits (n: its value)                         *)
(*   num    a number of one to three digits (n: its value)                 *)
(*   month  a month name, jan..dec with any tail (s: its text)             *)
(*   sep    "-" or "to", the runs of the class [-to]+ (s: which)           *)
(*   now    present, current or now (s: its text, case kept)               *)
(*   unit   years, yrs, months, mos (s: its text)                          *)
(*   mark   a bullet marker "*" or a colon ":" (s: which)                  *)
(* Tokens of a line are separated by blanks, which every expression of the *)
(* source allows (as \s) wherever the model puts two tokens side by side.  *)
(* Skill names and the lines of a resume text are sequences of characters, *)
(* so that lower(), strip(), title(), the keyword tests and the regular    *)
(* expressions of the extractors act on them as they do in the source.     *)
(* Scores are fractions; they are kept as integers over a fixed            *)
(* denominator (MatchScale, ScoreScale).                                   *)
(***************************************************************************)
EXTENDS Integers, Sequences, FiniteSets, TLC

VARIABLES
    pc,             \* the step the current request has reached
    duration,       \* _parse_duration: the duration text
    current_year,   \* datetime.now().year
    months,         \* _parse_duration: the result (None: no rule matched)
    skill,          \* normalize: the raw skill string
    normalized_skill,   \* normalize(skill)
    renormalized_skill, \* normalize(normalize(skill).normalized)
    all_skills,     \* recommend_jobs: skill_profile['all_skills']
    top_n,          \* recommend_jobs: top_n
    match_results,  \* the _calculate_job_match result of every job of the table
    recommendations, \* recommend_jobs: the list returned
    resume_data,    \* score_resume: the parsed resume
    skill_profile,  \* score_resume: the skill profile, or None
    resume_score,   \* score_resume: the ResumeScore returned
    overall_scores, \* two ResumeScore objects: their overall_score
    grades,         \* _get_grade() of the two
    parser,         \* the extraction path: TxtParser or ResumeParser.parse_text
    text,           \* the lines of the resume text
    exp_lines,      \* TxtParser: the lines of the experience section
    section_open,   \* whether the section is open after each line of the text
    experiences,    \* the experience entries extracted
    document,       \* TxtParser.parse: the lines of raw_text
    section_bodies, \* the lines each section scan of parse() has collected
    requested_role,    \* gap analysis and roadmap: the id of the target job
    gap_skills,     \* gap analysis and roadmap: skill_profile.all_skills
    career_level,   \* get_career_roadmap: experience_profile.career_level
    operation,      \* the gap or roadmap operation that was called
    gap_result,     \* the dict it returned
    durations,      \* _calculate_total_years: exp.duration of every experience
    total_years,    \* _calculate_total_years: the result, in tenths of a year
    api_request,    \* the request of the API: the parser and the extracted text
    api_resume_data,    \* analyze_resume_text: resume_data
    api_skill_profile,  \* analyze_resume_text: skill_profile
    experience_profile, \* analyze_resume_text: experience_profile
    job_recommendations, \* analyze_resume_text: job_recommendations
    api_resume_score,   \* analyze_resume_text: resume_score
    handled,        \* the number of requests the API object has answered
    analyzer_state, \* the fields of the analyzers: _reverse_mapping, weights
    collected_skills, \* analyze_skills: the skills the resume lists
    built_profile   \* analyze_skills: all_skills, primary_skills, secondary_skills

durVars == <<duration, current_year, months>>
normVars == <<skill, normalized_skill, renormalized_skill>>
matchVars == <<all_skills, top_n, match_results, recommendations>>
scoreVars == <<resume_data, skill_profile, resume_score>>
gradeVars == <<overall_scores, grades>>
extractVars == <<parser, text, exp_lines, section_open, experiences>>
segmentVars == <<document, section_bodies>>
gapVars == <<requested_role, gap_skills, career_level, operation, gap_result>>
totalVars == <<durations, total_years>>
apiVars == <<api_request, api_resume_data, api_skill_profile, experience_profile,
             job_recommendations, api_resume_score, handled, analyzer_state>>
profileVars == <<collected_skills, built_profile>>
vars == <<pc, durVars, normVars, matchVars, scoreVars, gradeVars, extractVars, segmentVars, gapVars,
          totalVars, apiVars, profileVars>>

\* Optional values: None, or Some(v)
None == [some |-> FALSE, v |-> 0]
Some(x) == [some |-> TRUE, v |-> x]

----------------------------------------------------------------------------
(* Tokens *)

Tok(t, s, n) == [t |-> t, s |-> s, n |-> n]
W(s) == Tok("word", s, 0)
Yr(n) == Tok("year", "", n)
Num(n) == Tok("num", "", n)
Mon(s) == Tok("month", s, 0)
Dash == Tok("sep", "-", 0)
To == Tok("sep", "to", 0)
Now(s) == Tok("now", s, 0)
Unit(s) == Tok("unit", s, 0)

----------------------------------------------------------------------------
(* Duration parser: ExperienceAnalyzer._parse_duration *)

\* (19|20)\d{2}: the years _extract_year recognises
YearLo == 1900
YearHi == 2099

\* _extract_year: the first 19xx/20xx year of the text, else the current
\* year for present/current/now, else None
RECURSIVE FirstYear(_, _)
FirstYear(toks, i) ==
    IF i > Len(toks) THEN None
    ELSE IF toks[i].t = "year" /\ toks[i].n >= YearLo /\ toks[i].n <= YearHi
         THEN Some(toks[i].n)
         ELSE FirstYear(toks, i + 1)

ExtractYear(toks, now) ==
    IF FirstYear(toks, 1) # None THEN FirstYear(toks, 1)
    ELSE IF \E i \in 1..Len(toks) : toks[i].t = "now" THEN Some(now)
    ELSE None

\* date_pattern, first group at position p: the number of tokens it takes
\* (0: no match).  month + digits, or a year.
DateStartLen(d, p) ==
    IF p + 1 <= Len(d) /\ d[p].t = "month" /\ d[p + 1].t \in {"year", "num"}
        /\ (d[p + 1].t = "num" => d[p + 1].n >= 10)
    THEN 2
    ELSE IF p <= Len(d) /\ d[p].t = "year" THEN 1
    ELSE 0

\* date_pattern, second group at position p; (?i) makes present|current|now
\* match in any case
DateEndLen(d, p) ==
    IF p + 1 <= Len(d) /\ d[p].t = "month" /\ d[p + 1].t \in {"year", "num"}
        /\ (d[p + 1].t = "num" => d[p + 1].n >= 10)
    THEN 2
    ELSE IF p <= Len(d) /\ d[p].t \in {"year", "now"} THEN 1
    ELSE 0

\* date_pattern matches at p: start group, a run [-to]+, end group
DateAt(d, p) ==
    LET ls == DateStartLen(d, p) IN
    /\ ls > 0
    /\ p + ls <= Len(d)
    /\ d[p + ls].t = "sep"
    /\ DateEndLen(d, p + ls + 1) > 0

\* re.search: the leftmost position at which pattern At matches, 0 if none
RECURSIVE SearchFrom(_, _, _)
SearchFrom(At(_, _), d, p) ==
    IF p > Len(d) THEN 0
    ELSE IF At(d, p) THEN p
    ELSE SearchFrom(At, d, p + 1)

\* year_pattern (\d+)\+?\s*(?:years?|yrs?) and month_pattern
\* (\d+)\s*(?:months?|mos?), on the lower-cased text
IsYearsUnit(t) == t.t = "unit" /\ t.s \in {"year", "years", "yr", "yrs"}
IsMonthsUnit(t) == t.t = "unit" /\ t.s \in {"month", "months", "mo", "mos"}
YearsAt(d, p) ==
    /\ p + 1 <= Len(d)
    /\ d[p].t \in {"num", "year"}
    /\ \/ IsYearsUnit(d[p + 1])
       \/ p + 2 <= Len(d) /\ d[p + 1] = Tok("mark", "+", 0) /\ IsYearsUnit(d[p + 2])
MonthsAt(d, p) ==
    /\ p + 1 <= Len(d)
    /\ d[p].t \in {"num", "year"}
    /\ IsMonthsUnit(d[p + 1])

\* year_range (\d{4})\s*[-]\s*(\d{4}): a dash only, not "to"
YearRangeAt(d, p) ==
    /\ p + 2 <= Len(d)
    /\ d[p].t = "year"
    /\ d[p + 1] = Dash
    /\ d[p + 2].t = "year"

\* rule 1 without the floor at 0
DateRangeMonthsNoFloor(d, now) ==
    LET p == SearchFrom(DateAt, d, 1) IN
    IF p = 0 THEN None
    ELSE LET ls == DateStartLen(d, p)
             le == DateEndLen(d, p + ls + 1)
             start_year == ExtractYear(SubSeq(d, p, p + ls - 1), now)
             end_year == ExtractYear(SubSeq(d, p + ls + 1, p + ls + le), now)
         IN  IF start_year.some /\ start_year.v # 0 /\ end_year.some /\ end_year.v # 0
             THEN Some((end_year.v - start_year.v) * 12)
             ELSE None

\* rule 1, the date range: its value, or None when it does not decide
DateRangeMonths(d, now) ==
    LET p == SearchFrom(DateAt, d, 1) IN
    IF p = 0 THEN None
    ELSE LET ls == DateStartLen(d, p)
             le == DateEndLen(d, p + ls + 1)
             start_year == ExtractYear(SubSeq(d, p, p + ls - 1), now)
             end_year == ExtractYear(SubSeq(d, p + ls + 1, p + ls + le), now)
         IN  \* "if start_year and end_year": None and 0 are both false
             IF start_year.some /\ start_year.v # 0 /\ end_year.some /\ end_year.v # 0
             THEN LET m == (end_year.v - start_year.v) * 12
                  IN  Some(IF m > 0 THEN m ELSE 0)
             ELSE None

\* rule 4
YearRangeMonths(d) ==
    LET p == SearchFrom(YearRangeAt, d, 1) IN
    IF p = 0 THEN None
    ELSE IF d[p + 2].n >= d[p].n THEN Some((d[p + 2].n - d[p].n) * 12)
    ELSE None

\* _parse_duration
ParseDurationText(d, now) ==
    IF Len(d) = 0 THEN None
    ELSE IF DateRangeMonths(d, now).some THEN DateRangeMonths(d, now)
    ELSE IF SearchFrom(YearsAt, d, 1) # 0 THEN Some(d[SearchFrom(YearsAt, d, 1)].n * 12)
    ELSE IF SearchFrom(MonthsAt, d, 1) # 0 THEN Some(d[SearchFrom(MonthsAt, d, 1)].n)
    ELSE YearRangeMonths(d)


\* round(total_months / 12, 1), in tenths of a year with floor division
RoundTenthsDown(total_months) == (total_months * 10) \div 12

\* round(total_months / 12, 1), in tenths of a year.  A quotient on a half
\* is a multiple of a quarter, which a float holds exactly, and round()
\* takes it to the even tenth.
RoundTenths(total_months) ==
    LET q == (total_months * 10) \div 12
        r == (total_months * 10) % 12
    IN  IF r < 6 THEN q
        ELSE IF r > 6 THEN q + 1
        ELSE IF q % 2 = 0 THEN q ELSE q + 1

\* the loop of _calculate_total_years: "if duration_months:" skips None and 0
RECURSIVE TotalMonths(_, _, _, _)
TotalMonths(exp_durations, i, now, total_months) ==
    IF i > Len(exp_durations) THEN total_months
    ELSE TotalMonths(exp_durations, i + 1, now,
            total_months + (IF ParseDurationText(exp_durations[i], now).some
                            THEN ParseDurationText(exp_durations[i], now).v
                            ELSE 0))

\* _calculate_total_years, in tenths of a year
CalculateTotalYears(exp_durations, now) ==
    IF Len(exp_durations) = 0 THEN 0
    ELSE RoundTenths(TotalMonths(exp_durations, 1, now, 0))
----------------------------------------------------------------------------
(* Skill normalizer: SkillNormalizer *)

\* str.lower(), str.upper() on one character
UpperCase == <<"A","B","C","D","E","F","G","H","I","J","K","L","M","N","O","P","Q","R","S","T","U","V","W","X","Y","Z">>
LowerCase == <<"a","b","c","d","e","f","g","h","i","j","k","l","m","n","o","p","q","r","s","t","u","v","w","x","y","z">>
IsUpper(c) == c \in { UpperCase[i] : i \in 1..26 }
IsLower(c) == c \in { LowerCase[i] : i \in 1..26 }
IsCased(c) == IsUpper(c) \/ IsLower(c)
ToLower == [c \in { UpperCase[i] : i \in 1..26 } |-> LowerCase[CHOOSE i \in 1..26 : UpperCase[i] = c]]
ToUpper == [c \in { LowerCase[i] : i \in 1..26 } |-> UpperCase[CHOOSE i \in 1..26 : LowerCase[i] = c]]
LowerChar(c) == IF c \in DOMAIN ToLower THEN ToLower[c] ELSE c
UpperChar(c) == IF c \in DOMAIN ToUpper THEN ToUpper[c] ELSE c

\* str.lower()
Lower(s) == [i \in 1..Len(s) |-> LowerChar(s[i])]

\* str.strip(): leading and trailing blanks removed
RECURSIVE LStrip(_)
LStrip(s) == IF Len(s) > 0 /\ s[1] = " " THEN LStrip(Tail(s)) ELSE s
RECURSIVE RStrip(_)
RStrip(s) == IF Len(s) > 0 /\ s[Len(s)] = " " THEN RStrip(SubSeq(s, 1, Len(s) - 1)) ELSE s
Strip(s) == RStrip(LStrip(s))

\* str.title(): a cased character is upper-cased when it follows an uncased
\* one (or starts the string) and lower-cased otherwise
Title(s) ==
    [i \in 1..Len(s) |->
        IF i = 1 \/ ~IsCased(s[i - 1]) THEN UpperChar(s[i]) ELSE LowerChar(s[i])]

\* SkillNormalizer.SKILL_ALIASES: lower-case alias -> canonical name
SKILL_ALIASES ==
    (<<"j","s">> :> <<"J","a","v","a","S","c","r","i","p","t">>) @@
    (<<"t","s">> :> <<"T","y","p","e","S","c","r","i","p","t">>) @@
    (<<"p","y">> :> <<"P","y","t","h","o","n">>) @@
    (<<"r","b">> :> <<"R","u","b","y">>) @@
    (<<"c","p","p">> :> <<"C","+","+">>) @@
    (<<"c","s","h","a","r","p">> :> <<"C","#">>) @@
    (<<"o","b","j","e","c","t","i","v","e","-","c">> :> <<"O","b","j","e","c","t","i","v","e","-","C">>) @@
    (<<"o","b","j","c">> :> <<"O","b","j","e","c","t","i","v","e","-","C">>) @@
    (<<"f","s","h","a","r","p">> :> <<"F","#">>) @@
    (<<"g","o","l","a","n","g">> :> <<"G","o">>) @@
    (<<"r","s">> :> <<"R","u","s","t">>) @@
    (<<"p","h","p">> :> <<"P","H","P">>) @@
    (<<"s","w","i","f","t">> :> <<"S","w","i","f","t">>) @@
    (<<"k","o","t","l","i","n">> :> <<"K","o","t","l","i","n">>) @@
    (<<"s","c","a","l","a">> :> <<"S","c","a","l","a">>) @@
    (<<"m","a","t","l","a","b">> :> <<"M","A","T","L","A","B">>) @@
    (<<"r"," ","p","r","o","g","r","a","m","m","i","n","g">> :> <<"R">>) @@
    (<<"s","q","l">> :> <<"S","Q","L">>) @@
    (<<"t","-","s","q","l">> :> <<"T","-","S","Q","L">>) @@
    (<<"p","l","s","q","l">> :> <<"P","L","/","S","Q","L">>) @@
    (<<"h","t","m","l","5">> :> <<"H","T","M","L">>) @@
    (<<"c","s","s","3">> :> <<"C","S","S">>) @@
    (<<"r","e","a","c","t","j","s">> :> <<"R","e","a","c","t">>) @@
    (<<"r","e","a","c","t",".","j","s">> :> <<"R","e","a","c","t">>) @@
    (<<"v","u","e","j","s">> :> <<"V","u","e",".","j","s">>) @@
    (<<"v","u","e",".","j","s">> :> <<"V","u","e",".","j","s">>) @@
    (<<"a","n","g","u","l","a","r","j","s">> :> <<"A","n","g","u","l","a","r">>) @@
    (<<"a","n","g","u","l","a","r",".","j","s">> :> <<"A","n","g","u","l","a","r">>) @@
    (<<"n","o","d","e","j","s">> :> <<"N","o","d","e",".","j","s">>) @@
    (<<"n","o","d","e",".","j","s">> :> <<"N","o","d","e",".","j","s">>) @@
    (<<"e","x","p","r","e","s","s","j","s">> :> <<"E","x","p","r","e","s","s",".","j","s">>) @@
    (<<"e","x","p","r","e","s","s">> :> <<"E","x","p","r","e","s","s",".","j","s">>) @@
    (<<"f","l","a","s","k">> :> <<"F","l","a","s","k">>) @@
    (<<"d","j","a","n","g","o">> :> <<"D","j","a","n","g","o">>) @@
    (<<"s","p","r","i","n","g","b","o","o","t">> :> <<"S","p","r","i","n","g"," ","B","o","o","t">>) @@
    (<<"s","p","r","i","n","g">> :> <<"S","p","r","i","n","g">>) @@
    (<<"t","e","n","s","o","r","f","l","o","w">> :> <<"T","e","n","s","o","r","F","l","o","w">>) @@
    (<<"p","y","t","o","r","c","h">> :> <<"P","y","T","o","r","c","h">>) @@
    (<<"k","e","r","a","s">> :> <<"K","e","r","a","s">>) @@
    (<<"s","k","l","e","a","r","n">> :> <<"S","c","i","k","i","t","-","l","e","a","r","n">>) @@
    (<<"p","a","n","d","a","s">> :> <<"P","a","n","d","a","s">>) @@
    (<<"n","u","m","p","y">> :> <<"N","u","m","P","y">>) @@
    (<<"m","a","t","p","l","o","t","l","i","b">> :> <<"M","a","t","p","l","o","t","l","i","b">>) @@
    (<<"b","o","o","t","s","t","r","a","p">> :> <<"B","o","o","t","s","t","r","a","p">>) @@
    (<<"t","a","i","l","w","i","n","d">> :> <<"T","a","i","l","w","i","n","d"," ","C","S","S">>) @@
    (<<"j","q","u","e","r","y">> :> <<"j","Q","u","e","r","y">>) @@
    (<<"n","e","x","t","j","s">> :> <<"N","e","x","t",".","j","s">>) @@
    (<<"n","u","x","t">> :> <<"N","u","x","t",".","j","s">>) @@
    (<<"g","a","t","s","b","y">> :> <<"G","a","t","s","b","y">>) @@
    (<<"a","w","s">> :> <<"A","W","S">>) @@
    (<<"a","m","a","z","o","n"," ","w","e","b"," ","s","e","r","v","i","c","e","s">> :> <<"A","W","S">>) @@
    (<<"a","z","u","r","e">> :> <<"A","z","u","r","e">>) @@
    (<<"m","i","c","r","o","s","o","f","t"," ","a","z","u","r","e">> :> <<"A","z","u","r","e">>) @@
    (<<"g","c","p">> :> <<"G","C","P">>) @@
    (<<"g","o","o","g","l","e"," ","c","l","o","u","d">> :> <<"G","C","P">>) @@
    (<<"g","o","o","g","l","e"," ","c","l","o","u","d"," ","p","l","a","t","f","o","r","m">> :> <<"G","C","P">>) @@
    (<<"d","o","c","k","e","r">> :> <<"D","o","c","k","e","r">>) @@
    (<<"k","u","b","e","r","n","e","t","e","s">> :> <<"K","u","b","e","r","n","e","t","e","s">>) @@
    (<<"k","8","s">> :> <<"K","u","b","e","r","n","e","t","e","s">>) @@
    (<<"g","i","t">> :> <<"G","i","t">>) @@
    (<<"g","i","t","h","u","b">> :> <<"G","i","t","H","u","b">>) @@
    (<<"g","i","t","l","a","b">> :> <<"G","i","t","L","a","b">>) @@
    (<<"j","e","n","k","i","n","s">> :> <<"J","e","n","k","i","n","s">>) @@
    (<<"c","i","r","c","l","e","c","i">> :> <<"C","i","r","c","l","e","C","I">>) @@
    (<<"t","r","a","v","i","s">> :> <<"T","r","a","v","i","s"," ","C","I">>) @@
    (<<"l","i","n","u","x">> :> <<"L","i","n","u","x">>) @@
    (<<"u","b","u","n","t","u">> :> <<"L","i","n","u","x">>) @@
    (<<"c","e","n","t","o","s">> :> <<"L","i","n","u","x">>) @@
    (<<"d","e","b","i","a","n">> :> <<"L","i","n","u","x">>) @@
    (<<"w","i","n","d","o","w","s"," ","s","e","r","v","e","r">> :> <<"W","i","n","d","o","w","s">>) @@
    (<<"m","o","n","g","o","d","b">> :> <<"M","o","n","g","o","D","B">>) @@
    (<<"p","o","s","t","g","r","e","s">> :> <<"P","o","s","t","g","r","e","S","Q","L">>) @@
    (<<"m","y","s","q","l">> :> <<"M","y","S","Q","L">>) @@
    (<<"r","e","d","i","s">> :> <<"R","e","d","i","s">>) @@
    (<<"e","l","a","s","t","i","c","s","e","a","r","c","h">> :> <<"E","l","a","s","t","i","c","s","e","a","r","c","h">>) @@
    (<<"k","a","f","k","a">> :> <<"K","a","f","k","a">>) @@
    (<<"r","a","b","b","i","t","m","q">> :> <<"R","a","b","b","i","t","M","Q">>) @@
    (<<"g","r","a","p","h","q","l">> :> <<"G","r","a","p","h","Q","L">>) @@
    (<<"r","e","s","t">> :> <<"R","E","S","T"," ","A","P","I">>) @@
    (<<"r","e","s","t","f","u","l">> :> <<"R","E","S","T"," ","A","P","I">>) @@
    (<<"r","e","s","t"," ","a","p","i">> :> <<"R","E","S","T"," ","A","P","I">>) @@
    (<<"m","i","c","r","o","s","e","r","v","i","c","e">> :> <<"M","i","c","r","o","s","e","r","v","i","c","e","s">>) @@
    (<<"m","l">> :> <<"M","a","c","h","i","n","e"," ","L","e","a","r","n","i","n","g">>) @@
    (<<"m","a","c","h","i","n","e"," ","l","e","a","r","n","i","n","g">> :> <<"M","a","c","h","i","n","e"," ","L","e","a","r","n","i","n","g">>) @@
    (<<"d","e","e","p"," ","l","e","a","r","n","i","n","g">> :> <<"D","e","e","p"," ","L","e","a","r","n","i","n","g">>) @@
    (<<"n","l","p">> :> <<"N","a","t","u","r","a","l"," ","L","a","n","g","u","a","g","e"," ","P","r","o","c","e","s","s","i","n","g">>) @@
    (<<"n","a","t","u","r","a","l"," ","l","a","n","g","u","a","g","e"," ","p","r","o","c","e","s","s","i","n","g">> :> <<"N","a","t","u","r","a","l"," ","L","a","n","g","u","a","g","e"," ","P","r","o","c","e","s","s","i","n","g">>) @@
    (<<"c","o","m","p","u","t","e","r"," ","v","i","s","i","o","n">> :> <<"C","o","m","p","u","t","e","r"," ","V","i","s","i","o","n">>) @@
    (<<"d","a","t","a"," ","a","n","a","l","y","t","i","c","s">> :> <<"D","a","t","a"," ","A","n","a","l","y","s","i","s">>) @@
    (<<"d","a","t","a"," ","a","n","a","l","y","s","i","s">> :> <<"D","a","t","a"," ","A","n","a","l","y","s","i","s">>) @@
    (<<"d","a","t","a"," ","v","i","z">> :> <<"D","a","t","a"," ","V","i","s","u","a","l","i","z","a","t","i","o","n">>) @@
    (<<"d","a","t","a"," ","v","i","s","u","a","l","i","z","a","t","i","o","n">> :> <<"D","a","t","a"," ","V","i","s","u","a","l","i","z","a","t","i","o","n">>) @@
    (<<"s","t","a","t","i","s","t","i","c","s">> :> <<"S","t","a","t","i","s","t","i","c","s">>) @@
    (<<"a","/","b"," ","t","e","s","t","i","n","g">> :> <<"A","/","B"," ","T","e","s","t","i","n","g">>) @@
    (<<"a","b"," ","t","e","s","t","i","n","g">> :> <<"A","/","B"," ","T","e","s","t","i","n","g">>) @@
    (<<"p","r","e","d","i","c","t","i","v","e"," ","m","o","d","e","l","i","n","g">> :> <<"P","r","e","d","i","c","t","i","v","e"," ","M","o","d","e","l","i","n","g">>) @@
    (<<"f","e","a","t","u","r","e"," ","e","n","g","i","n","e","e","r","i","n","g">> :> <<"F","e","a","t","u","r","e"," ","E","n","g","i","n","e","e","r","i","n","g">>) @@
    (<<"d","e","v","o","p","s">> :> <<"D","e","v","O","p","s">>) @@
    (<<"c","l","o","u","d">> :> <<"C","l","o","u","d"," ","A","r","c","h","i","t","e","c","t","u","r","e">>) @@
    (<<"c","l","o","u","d"," ","a","r","c","h","i","t","e","c","t","u","r","e">> :> <<"C","l","o","u","d"," ","A","r","c","h","i","t","e","c","t","u","r","e">>) @@
    (<<"i","a","a","s">> :> <<"I","n","f","r","a","s","t","r","u","c","t","u","r","e"," ","a","s"," ","C","o","d","e">>) @@
    (<<"i","n","f","r","a","s","t","r","u","c","t","u","r","e"," ","a","s"," ","c","o","d","e">> :> <<"I","n","f","r","a","s","t","r","u","c","t","u","r","e"," ","a","s"," ","C","o","d","e">>) @@
    (<<"t","e","r","r","a","f","o","r","m">> :> <<"T","e","r","r","a","f","o","r","m">>) @@
    (<<"a","n","s","i","b","l","e">> :> <<"A","n","s","i","b","l","e">>) @@
    (<<"c","i","c","d">> :> <<"C","I","/","C","D">>) @@
    (<<"c","i","/","c","d">> :> <<"C","I","/","C","D">>) @@
    (<<"c","i"," ","c","d">> :> <<"C","I","/","C","D">>) @@
    (<<"m","o","n","i","t","o","r","i","n","g">> :> <<"M","o","n","i","t","o","r","i","n","g">>) @@
    (<<"l","o","g","g","i","n","g">> :> <<"L","o","g","g","i","n","g">>) @@
    (<<"s","e","c","u","r","i","t","y">> :> <<"S","e","c","u","r","i","t","y">>) @@
    (<<"c","o","n","t","a","i","n","e","r">> :> <<"C","o","n","t","a","i","n","e","r"," ","O","r","c","h","e","s","t","r","a","t","i","o","n">>) @@
    (<<"o","r","c","h","e","s","t","r","a","t","i","o","n">> :> <<"C","o","n","t","a","i","n","e","r"," ","O","r","c","h","e","s","t","r","a","t","i","o","n">>) @@
    (<<"s","e","r","v","i","c","e"," ","m","e","s","h">> :> <<"S","e","r","v","i","c","e"," ","M","e","s","h">>)

\* config.SKILL_CATEGORIES, in the order of the table
SKILL_CATEGORIES == <<
    [category |-> "programming_languages", skills |-> <<
        <<"P","y","t","h","o","n">>,
        <<"J","a","v","a">>,
        <<"J","a","v","a","S","c","r","i","p","t">>,
        <<"T","y","p","e","S","c","r","i","p","t">>,
        <<"C","+","+">>,
        <<"C","#">>,
        <<"G","o">>,
        <<"R","u","s","t">>,
        <<"R","u","b","y">>,
        <<"P","H","P">>,
        <<"S","w","i","f","t">>,
        <<"K","o","t","l","i","n">>,
        <<"S","c","a","l","a">>,
        <<"R">>,
        <<"M","A","T","L","A","B">>,
        <<"S","Q","L">>,
        <<"H","T","M","L">>,
        <<"C","S","S">>
    >>],
    [category |-> "frameworks_libraries", skills |-> <<
        <<"R","e","a","c","t">>,
        <<"A","n","g","u","l","a","r">>,
        <<"V","u","e",".","j","s">>,
        <<"D","j","a","n","g","o">>,
        <<"F","l","a","s","k">>,
        <<"S","p","r","i","n","g">>,
        <<"N","o","d","e",".","j","s">>,
        <<"E","x","p","r","e","s","s",".","j","s">>,
        <<"F","a","s","t","A","P","I">>,
        <<"T","e","n","s","o","r","F","l","o","w">>,
        <<"P","y","T","o","r","c","h">>,
        <<"K","e","r","a","s">>,
        <<"S","c","i","k","i","t","-","l","e","a","r","n">>,
        <<"P","a","n","d","a","s">>,
        <<"N","u","m","P","y">>,
        <<"M","a","t","p","l","o","t","l","i","b">>,
        <<"B","o","o","t","s","t","r","a","p">>,
        <<"T","a","i","l","w","i","n","d"," ","C","S","S">>,
        <<"j","Q","u","e","r","y">>
    >>],
    [category |-> "tools_platforms", skills |-> <<
        <<"G","i","t">>,
        <<"D","o","c","k","e","r">>,
        <<"K","u","b","e","r","n","e","t","e","s">>,
        <<"A","W","S">>,
        <<"A","z","u","r","e">>,
        <<"G","C","P">>,
        <<"J","e","n","k","i","n","s">>,
        <<"C","I","/","C","D">>,
        <<"L","i","n","u","x">>,
        <<"W","i","n","d","o","w","s">>,
        <<"m","a","c","O","S">>,
        <<"M","o","n","g","o","D","B">>,
        <<"P","o","s","t","g","r","e","S","Q","L">>,
        <<"M","y","S","Q","L">>,
        <<"R","e","d","i","s">>,
        <<"E","l","a","s","t","i","c","s","e","a","r","c","h">>,
        <<"R","a","b","b","i","t","M","Q">>,
        <<"K","a","f","k","a">>,
        <<"G","r","a","p","h","Q","L">>,
        <<"R","E","S","T"," ","A","P","I">>,
        <<"M","i","c","r","o","s","e","r","v","i","c","e","s">>
    >>],
    [category |-> "data_science", skills |-> <<
        <<"M","a","c","h","i","n","e"," ","L","e","a","r","n","i","n","g">>,
        <<"D","e","e","p"," ","L","e","a","r","n","i","n","g">>,
        <<"N","a","t","u","r","a","l"," ","L","a","n","g","u","a","g","e"," ","P","r","o","c","e","s","s","i","n","g">>,
        <<"C","o","m","p","u","t","e","r"," ","V","i","s","i","o","n">>,
        <<"D","a","t","a"," ","A","n","a","l","y","s","i","s">>,
        <<"D","a","t","a"," ","V","i","s","u","a","l","i","z","a","t","i","o","n">>,
        <<"S","t","a","t","i","s","t","i","c","s">>,
        <<"A","/","B"," ","T","e","s","t","i","n","g">>,
        <<"P","r","e","d","i","c","t","i","v","e"," ","M","o","d","e","l","i","n","g">>,
        <<"F","e","a","t","u","r","e"," ","E","n","g","i","n","e","e","r","i","n","g">>,
        <<"M","o","d","e","l"," ","D","e","p","l","o","y","m","e","n","t">>
    >>],
    [category |-> "devops_cloud", skills |-> <<
        <<"D","e","v","O","p","s">>,
        <<"C","l","o","u","d"," ","A","r","c","h","i","t","e","c","t","u","r","e">>,
        <<"I","n","f","r","a","s","t","r","u","c","t","u","r","e"," ","a","s"," ","C","o","d","e">>,
        <<"T","e","r","r","a","f","o","r","m">>,
        <<"A","n","s","i","b","l","e">>,
        <<"C","I","/","C","D"," ","P","i","p","e","l","i","n","e","s">>,
        <<"M","o","n","i","t","o","r","i","n","g">>,
        <<"L","o","g","g","i","n","g">>,
        <<"S","e","c","u","r","i","t","y">>,
        <<"C","o","n","t","a","i","n","e","r"," ","O","r","c","h","e","s","t","r","a","t","i","o","n">>,
        <<"S","e","r","v","i","c","e"," ","M","e","s","h">>
    >>],
    [category |-> "soft_skills", skills |-> <<
        <<"C","o","m","m","u","n","i","c","a","t","i","o","n">>,
        <<"T","e","a","m","w","o","r","k">>,
        <<"L","e","a","d","e","r","s","h","i","p">>,
        <<"P","r","o","b","l","e","m"," ","S","o","l","v","i","n","g">>,
        <<"C","r","i","t","i","c","a","l"," ","T","h","i","n","k","i","n","g">>,
        <<"T","i","m","e"," ","M","a","n","a","g","e","m","e","n","t">>,
        <<"A","d","a","p","t","a","b","i","l","i","t","y">>,
        <<"C","r","e","a","t","i","v","i","t","y">>,
        <<"A","n","a","l","y","t","i","c","a","l"," ","S","k","i","l","l","s">>,
        <<"P","r","o","j","e","c","t"," ","M","a","n","a","g","e","m","e","n","t">>,
        <<"C","o","l","l","a","b","o","r","a","t","i","o","n">>,
        <<"P","r","e","s","e","n","t","a","t","i","o","n">>,
        <<"N","e","g","o","t","i","a","t","i","o","n">>,
        <<"I","n","t","e","r","p","e","r","s","o","n","a","l"," ","S","k","i","l","l","s">>,
        <<"C","u","s","t","o","m","e","r"," ","S","e","r","v","i","c","e">>,
        <<"O","r","g","a","n","i","z","a","t","i","o","n","a","l"," ","S","k","i","l","l","s">>,
        <<"A","t","t","e","n","t","i","o","n"," ","t","o"," ","D","e","t","a","i","l">>,
        <<"M","u","l","t","i","t","a","s","k","i","n","g">>,
        <<"D","e","c","i","s","i","o","n"," ","M","a","k","i","n","g">>,
        <<"C","o","n","f","l","i","c","t"," ","R","e","s","o","l","u","t","i","o","n">>
    >>],
    [category |-> "education_skills", skills |-> <<
        <<"C","u","r","r","i","c","u","l","u","m"," ","D","e","v","e","l","o","p","m","e","n","t">>,
        <<"L","e","s","s","o","n"," ","P","l","a","n","n","i","n","g">>,
        <<"C","l","a","s","s","r","o","o","m"," ","M","a","n","a","g","e","m","e","n","t">>,
        <<"T","e","a","c","h","i","n","g">>,
        <<"E","d","u","c","a","t","i","o","n"," ","T","e","c","h","n","o","l","o","g","y">>,
        <<"S","t","u","d","e","n","t"," ","A","s","s","e","s","s","m","e","n","t">>,
        <<"I","n","s","t","r","u","c","t","i","o","n","a","l"," ","D","e","s","i","g","n">>,
        <<"T","r","a","i","n","i","n","g">>,
        <<"T","u","t","o","r","i","n","g">>,
        <<"A","c","a","d","e","m","i","c"," ","A","d","v","i","s","i","n","g">>,
        <<"C","o","u","r","s","e"," ","D","e","v","e","l","o","p","m","e","n","t">>,
        <<"E","-","L","e","a","r","n","i","n","g">>,
        <<"S","p","e","c","i","a","l"," ","E","d","u","c","a","t","i","o","n">>,
        <<"C","h","i","l","d"," ","D","e","v","e","l","o","p","m","e","n","t">>,
        <<"P","e","d","a","g","o","g","y">>
    >>],
    [category |-> "sales_marketing_skills", skills |-> <<
        <<"S","a","l","e","s">>,
        <<"L","e","a","d"," ","G","e","n","e","r","a","t","i","o","n">>,
        <<"C","l","i","e","n","t"," ","R","e","l","a","t","i","o","n","s">>,
        <<"N","e","g","o","t","i","a","t","i","o","n">>,
        <<"B","u","s","i","n","e","s","s"," ","D","e","v","e","l","o","p","m","e","n","t">>,
        <<"A","c","c","o","u","n","t"," ","M","a","n","a","g","e","m","e","n","t">>,
        <<"M","a","r","k","e","t"," ","R","e","s","e","a","r","c","h">>,
        <<"D","i","g","i","t","a","l"," ","M","a","r","k","e","t","i","n","g">>,
        <<"S","E","O">>,
        <<"S","E","M">>,
        <<"S","o","c","i","a","l"," ","M","e","d","i","a"," ","M","a","r","k","e","t","i","n","g">>,
        <<"C","o","n","t","e","n","t"," ","M","a","r","k","e","t","i","n","g">>,
        <<"E","m","a","i","l"," ","M","a","r","k","e","t","i","n","g">>,
        <<"B","r","a","n","d"," ","M","a","n","a","g","e","m","e","n","t">>,
        <<"P","u","b","l","i","c"," ","R","e","l","a","t","i","o","n","s">>,
        <<"A","d","v","e","r","t","i","s","i","n","g">>,
        <<"C","R","M">>,
        <<"S","a","l","e","s","f","o","r","c","e">>,
        <<"R","e","v","e","n","u","e"," ","G","r","o","w","t","h">>,
        <<"C","u","s","t","o","m","e","r"," ","A","c","q","u","i","s","i","t","i","o","n">>,
        <<"P","a","r","t","n","e","r"," ","R","e","l","a","t","i","o","n","s">>,
        <<"C","o","l","d"," ","C","a","l","l","i","n","g">>,
        <<"P","r","o","s","p","e","c","t","i","n","g">>
    >>],
    [category |-> "retail_customer_service", skills |-> <<
        <<"C","u","s","t","o","m","e","r"," ","S","e","r","v","i","c","e">>,
        <<"R","e","t","a","i","l">>,
        <<"P","o","i","n","t"," ","o","f"," ","S","a","l","e">>,
        <<"I","n","v","e","n","t","o","r","y"," ","M","a","n","a","g","e","m","e","n","t">>,
        <<"C","a","s","h"," ","H","a","n","d","l","i","n","g">>,
        <<"S","t","o","r","e"," ","O","p","e","r","a","t","i","o","n","s">>,
        <<"M","e","r","c","h","a","n","d","i","s","i","n","g">>,
        <<"S","t","o","c","k"," ","M","a","n","a","g","e","m","e","n","t">>,
        <<"C","l","i","e","n","t","e","l","i","n","g">>,
        <<"P","r","o","d","u","c","t"," ","K","n","o","w","l","e","d","g","e">>,
        <<"V","i","s","u","a","l"," ","M","e","r","c","h","a","n","d","i","s","i","n","g">>,
        <<"O","r","d","e","r"," ","F","u","l","f","i","l","l","m","e","n","t">>,
        <<"R","e","t","u","r","n","s"," ","P","r","o","c","e","s","s","i","n","g">>,
        <<"P","a","y","m","e","n","t"," ","P","r","o","c","e","s","s","i","n","g">>,
        <<"U","p","s","e","l","l","i","n","g">>,
        <<"C","r","o","s","s","-","s","e","l","l","i","n","g">>
    >>],
    [category |-> "healthcare_skills", skills |-> <<
        <<"P","a","t","i","e","n","t"," ","C","a","r","e">>,
        <<"C","l","i","n","i","c","a","l"," ","S","k","i","l","l","s">>,
        <<"M","e","d","i","c","a","l"," ","T","e","r","m","i","n","o","l","o","g","y">>,
        <<"H","e","a","l","t","h","c","a","r","e"," ","D","o","c","u","m","e","n","t","a","t","i","o","n">>,
        <<"H","I","P","A","A"," ","C","o","m","p","l","i","a","n","c","e">>,
        <<"V","i","t","a","l"," ","S","i","g","n","s">>,
        <<"P","h","l","e","b","o","t","o","m","y">>,
        <<"E","K","G">>,
        <<"C","P","R"," ","C","e","r","t","i","f","i","e","d">>,
        <<"E","l","e","c","t","r","o","n","i","c"," ","H","e","a","l","t","h"," ","R","e","c","o","r","d","s">>,
        <<"P","a","t","i","e","n","t"," ","A","d","v","o","c","a","c","y">>,
        <<"M","e","d","i","c","a","l"," ","B","i","l","l","i","n","g">>,
        <<"I","n","s","u","r","a","n","c","e"," ","C","l","a","i","m","s">>,
        <<"H","e","a","l","t","h"," ","E","d","u","c","a","t","i","o","n">>,
        <<"W","e","l","l","n","e","s","s"," ","C","o","a","c","h","i","n","g">>
    >>],
    [category |-> "administrative_skills", skills |-> <<
        <<"M","i","c","r","o","s","o","f","t"," ","O","f","f","i","c","e">>,
        <<"G","o","o","g","l","e"," ","W","o","r","k","s","p","a","c","e">>,
        <<"D","a","t","a"," ","E","n","t","r","y">>,
        <<"R","e","c","o","r","d"," ","K","e","e","p","i","n","g">>,
        <<"D","o","c","u","m","e","n","t"," ","M","a","n","a","g","e","m","e","n","t">>,
        <<"C","a","l","e","n","d","a","r"," ","M","a","n","a","g","e","m","e","n","t">>,
        <<"T","r","a","v","e","l"," ","C","o","o","r","d","i","n","a","t","i","o","n">>,
        <<"M","e","e","t","i","n","g"," ","C","o","o","r","d","i","n","a","t","i","o","n">>,
        <<"O","f","f","i","c","e"," ","A","d","m","i","n","i","s","t","r","a","t","i","o","n">>,
        <<"E","x","e","c","u","t","i","v","e"," ","A","s","s","i","s","t","a","n","t">>,
        <<"A","d","m","i","n","i","s","t","r","a","t","i","v","e"," ","S","u","p","p","o","r","t">>,
        <<"C","o","r","r","e","s","p","o","n","d","e","n","c","e">>,
        <<"F","i","l","i","n","g"," ","S","y","s","t","e","m","s">>,
        <<"B","u","d","g","e","t","i","n","g">>,
        <<"E","x","p","e","n","s","e"," ","R","e","p","o","r","t","i","n","g">>
    >>],
    [category |-> "finance_accounting_skills", skills |-> <<
        <<"F","i","n","a","n","c","i","a","l"," ","A","n","a","l","y","s","i","s">>,
        <<"B","u","d","g","e","t","i","n","g">>,
        <<"F","o","r","e","c","a","s","t","i","n","g">>,
        <<"F","i","n","a","n","c","i","a","l"," ","R","e","p","o","r","t","i","n","g">>,
        <<"B","o","o","k","k","e","e","p","i","n","g">>,
        <<"A","c","c","o","u","n","t","s"," ","P","a","y","a","b","l","e">>,
        <<"A","c","c","o","u","n","t","s"," ","R","e","c","e","i","v","a","b","l","e">>,
        <<"T","a","x"," ","P","r","e","p","a","r","a","t","i","o","n">>,
        <<"A","u","d","i","t">>,
        <<"C","o","m","p","l","i","a","n","c","e">>,
        <<"R","i","s","k"," ","M","a","n","a","g","e","m","e","n","t">>,
        <<"I","n","v","e","s","t","m","e","n","t"," ","A","n","a","l","y","s","i","s">>,
        <<"E","x","c","e","l">>,
        <<"Q","u","i","c","k","B","o","o","k","s">>,
        <<"S","A","P">>,
        <<"O","r","a","c","l","e"," ","F","i","n","a","n","c","i","a","l","s">>,
        <<"P","a","y","r","o","l","l"," ","P","r","o","c","e","s","s","i","n","g">>
    >>],
    [category |-> "hr_skills", skills |-> <<
        <<"R","e","c","r","u","i","t","i","n","g">>,
        <<"T","a","l","e","n","t"," ","A","c","q","u","i","s","i","t","i","o","n">>,
        <<"E","m","p","l","o","y","e","e"," ","R","e","l","a","t","i","o","n","s">>,
        <<"P","e","r","f","o","r","m","a","n","c","e"," ","M","a","n","a","g","e","m","e","n","t">>,
        <<"T","r","a","i","n","i","n","g"," ","a","n","d"," ","D","e","v","e","l","o","p","m","e","n","t">>,
        <<"H","R","I","S">>,
        <<"B","e","n","e","f","i","t","s"," ","A","d","m","i","n","i","s","t","r","a","t","i","o","n">>,
        <<"O","n","b","o","a","r","d","i","n","g">>,
        <<"O","f","f","b","o","a","r","d","i","n","g">>,
        <<"S","u","c","c","e","s","s","i","o","n"," ","P","l","a","n","n","i","n","g">>,
        <<"W","o","r","k","f","o","r","c","e"," ","P","l","a","n","n","i","n","g">>,
        <<"H","R"," ","A","n","a","l","y","t","i","c","s">>,
        <<"E","m","p","l","o","y","e","e"," ","E","n","g","a","g","e","m","e","n","t">>,
        <<"P","o","l","i","c","y"," ","D","e","v","e","l","o","p","m","e","n","t">>,
        <<"L","a","b","o","r"," ","L","a","w"," ","C","o","m","p","l","i","a","n","c","e">>
    >>],
    [category |-> "project_management_skills", skills |-> <<
        <<"P","r","o","j","e","c","t"," ","P","l","a","n","n","i","n","g">>,
        <<"P","r","o","j","e","c","t"," ","E","x","e","c","u","t","i","o","n">>,
        <<"R","i","s","k"," ","M","a","n","a","g","e","m","e","n","t">>,
        <<"S","t","a","k","e","h","o","l","d","e","r"," ","M","a","n","a","g","e","m","e","n","t">>,
        <<"R","e","s","o","u","r","c","e"," ","A","l","l","o","c","a","t","i","o","n">>,
        <<"B","u","d","g","e","t"," ","M","a","n","a","g","e","m","e","n","t">>,
        <<"S","c","h","e","d","u","l","e"," ","M","a","n","a","g","e","m","e","n","t">>,
        <<"A","g","i","l","e">>,
        <<"S","c","r","u","m">>,
        <<"W","a","t","e","r","f","a","l","l">>,
        <<"K","a","n","b","a","n">>,
        <<"J","I","R","A">>,
        <<"C","o","n","f","l","u","e","n","c","e">>,
        <<"M","i","c","r","o","s","o","f","t"," ","P","r","o","j","e","c","t">>,
        <<"E","a","r","n","e","d"," ","V","a","l","u","e"," ","M","a","n","a","g","e","m","e","n","t">>,
        <<"Q","u","a","l","i","t","y"," ","A","s","s","u","r","a","n","c","e">>,
        <<"V","e","n","d","o","r"," ","M","a","n","a","g","e","m","e","n","t">>
    >>],
    [category |-> "operations_logistics", skills |-> <<
        <<"S","u","p","p","l","y"," ","C","h","a","i","n"," ","M","a","n","a","g","e","m","e","n","t">>,
        <<"L","o","g","i","s","t","i","c","s">>,
        <<"I","n","v","e","n","t","o","r","y"," ","C","o","n","t","r","o","l">>,
        <<"W","a","r","e","h","o","u","s","e"," ","M","a","n","a","g","e","m","e","n","t">>,
        <<"T","r","a","n","s","p","o","r","t","a","t","i","o","n">>,
        <<"P","r","o","c","u","r","e","m","e","n","t">>,
        <<"V","e","n","d","o","r"," ","M","a","n","a","g","e","m","e","n","t">>,
        <<"Q","u","a","l","i","t","y"," ","C","o","n","t","r","o","l">>,
        <<"P","r","o","c","e","s","s"," ","I","m","p","r","o","v","e","m","e","n","t">>,
        <<"L","e","a","n"," ","S","i","x"," ","S","i","g","m","a">>,
        <<"F","o","r","e","c","a","s","t","i","n","g">>,
        <<"D","e","m","a","n","d"," ","P","l","a","n","n","i","n","g">>,
        <<"D","i","s","t","r","i","b","u","t","i","o","n">>,
        <<"O","r","d","e","r"," ","M","a","n","a","g","e","m","e","n","t">>,
        <<"F","r","e","i","g","h","t"," ","F","o","r","w","a","r","d","i","n","g">>
    >>]
>>

\* special_cases of _capitalize_skill
special_cases ==
    (<<"c","s","s">> :> <<"C","S","S">>) @@
    (<<"h","t","m","l">> :> <<"H","T","M","L">>) @@
    (<<"s","q","l">> :> <<"S","Q","L">>) @@
    (<<"a","p","i">> :> <<"A","P","I">>) @@
    (<<"a","w","s">> :> <<"A","W","S">>) @@
    (<<"g","c","p">> :> <<"G","C","P">>) @@
    (<<"m","o","n","g","o","d","b">> :> <<"M","o","n","g","o","D","B">>) @@
    (<<"g","r","a","p","h","q","l">> :> <<"G","r","a","p","h","Q","L">>) @@
    (<<"r","e","s","t","f","u","l">> :> <<"R","E","S","T"," ","A","P","I">>) @@
    (<<"c","i","c","d">> :> <<"C","I","/","C","D">>) @@
    (<<"d","e","v","o","p","s">> :> <<"D","e","v","O","p","s">>) @@
    (<<"m","l">> :> <<"M","L">>) @@
    (<<"a","i">> :> <<"A","I">>) @@
    (<<"n","l","p">> :> <<"N","L","P">>)

\* _reverse_mapping.get(normalized, []): the aliases of a canonical name
ReverseMapping(normalized) ==
    { k \in DOMAIN SKILL_ALIASES : SKILL_ALIASES[k] = normalized }

\* _get_category: the first category of the table that lists the name,
\* compared in lower case; "unknown" when none does
RECURSIVE CategoryFrom(_, _)
CategoryFrom(skill_lower, c) ==
    IF c > Len(SKILL_CATEGORIES) THEN "unknown"
    ELSE IF \E j \in 1..Len(SKILL_CATEGORIES[c].skills) :
                Lower(SKILL_CATEGORIES[c].skills[j]) = skill_lower
         THEN SKILL_CATEGORIES[c].category
         ELSE CategoryFrom(skill_lower, c + 1)

GetCategory(raw) == CategoryFrom(Lower(raw), 1)

\* _capitalize_skill
CapitalizeSkill(raw) ==
    LET skill_lower == Strip(Lower(raw)) IN
    IF skill_lower \in DOMAIN special_cases THEN special_cases[skill_lower]
    ELSE Title(Strip(raw))

\* NormalizedSkill; confidence in hundredths
NormalizedSkill(original, normalized, category, confidence, is_alias, aliases) ==
    [original |-> original, normalized |-> normalized, category |-> category,
     confidence |-> confidence, is_alias |-> is_alias, aliases |-> aliases]

\* normalize
NormalizeSkill(raw) ==
    LET skill_lower == Strip(Lower(raw)) IN
    IF skill_lower \in DOMAIN SKILL_ALIASES
    THEN LET normalized == SKILL_ALIASES[skill_lower] IN
         NormalizedSkill(raw, normalized, GetCategory(normalized), 100, TRUE,
                         ReverseMapping(normalized))
    ELSE LET normalized == CapitalizeSkill(raw)
             category == GetCategory(normalized)
         IN  \* "if category:" is true of every non-empty string, "unknown" too
             IF category # ""
             THEN NormalizedSkill(raw, normalized, category, 95, FALSE, {})
             ELSE NormalizedSkill(raw, CapitalizeSkill(raw), "unknown", 50, FALSE, {})

----------------------------------------------------------------------------
(* Job matcher: JobRecommender *)

\* config.JOB_ROLES (required_skills), in the order of the table
JOB_ROLES == <<
    [job_id |-> "software_engineer", required_skills |-> <<
        <<"P","y","t","h","o","n">>,
        <<"J","a","v","a">>,
        <<"J","a","v","a","S","c","r","i","p","t">>,
        <<"S","Q","L">>,
        <<"G","i","t">>
    >>],
    [job_id |-> "data_scientist", required_skills |-> <<
        <<"P","y","t","h","o","n">>,
        <<"M","a","c","h","i","n","e"," ","L","e","a","r","n","i","n","g">>,
        <<"S","t","a","t","i","s","t","i","c","s">>,
        <<"S","Q","L">>,
        <<"D","a","t","a"," ","A","n","a","l","y","s","i","s">>
    >>],
    [job_id |-> "frontend_developer", required_skills |-> <<
        <<"J","a","v","a","S","c","r","i","p","t">>,
        <<"H","T","M","L">>,
        <<"C","S","S">>,
        <<"R","e","a","c","t">>,
        <<"V","u","e",".","j","s">>
    >>],
    [job_id |-> "backend_developer", required_skills |-> <<
        <<"P","y","t","h","o","n">>,
        <<"J","a","v","a">>,
        <<"N","o","d","e",".","j","s">>,
        <<"S","Q","L">>,
        <<"R","E","S","T"," ","A","P","I">>
    >>],
    [job_id |-> "full_stack_developer", required_skills |-> <<
        <<"J","a","v","a","S","c","r","i","p","t">>,
        <<"P","y","t","h","o","n">>,
        <<"R","e","a","c","t">>,
        <<"N","o","d","e",".","j","s">>,
        <<"S","Q","L">>
    >>],
    [job_id |-> "devops_engineer", required_skills |-> <<
        <<"D","o","c","k","e","r">>,
        <<"K","u","b","e","r","n","e","t","e","s">>,
        <<"C","I","/","C","D">>,
        <<"A","W","S">>,
        <<"L","i","n","u","x">>
    >>],
    [job_id |-> "machine_learning_engineer", required_skills |-> <<
        <<"P","y","t","h","o","n">>,
        <<"T","e","n","s","o","r","F","l","o","w">>,
        <<"P","y","T","o","r","c","h">>,
        <<"M","a","c","h","i","n","e"," ","L","e","a","r","n","i","n","g">>,
        <<"D","e","e","p"," ","L","e","a","r","n","i","n","g">>
    >>],
    [job_id |-> "project_manager", required_skills |-> <<
        <<"P","r","o","j","e","c","t"," ","P","l","a","n","n","i","n","g">>,
        <<"R","i","s","k"," ","M","a","n","a","g","e","m","e","n","t">>,
        <<"S","t","a","k","e","h","o","l","d","e","r"," ","M","a","n","a","g","e","m","e","n","t">>,
        <<"A","g","i","l","e">>,
        <<"S","c","r","u","m">>
    >>],
    [job_id |-> "product_manager", required_skills |-> <<
        <<"P","r","o","d","u","c","t"," ","M","a","n","a","g","e","m","e","n","t">>,
        <<"C","o","m","m","u","n","i","c","a","t","i","o","n">>,
        <<"A","n","a","l","y","t","i","c","a","l"," ","S","k","i","l","l","s">>,
        <<"S","t","r","a","t","e","g","y">>
    >>],
    [job_id |-> "teacher", required_skills |-> <<
        <<"C","u","r","r","i","c","u","l","u","m"," ","D","e","v","e","l","o","p","m","e","n","t">>,
        <<"L","e","s","s","o","n"," ","P","l","a","n","n","i","n","g">>,
        <<"C","l","a","s","s","r","o","o","m"," ","M","a","n","a","g","e","m","e","n","t">>,
        <<"T","e","a","c","h","i","n","g">>
    >>],
    [job_id |-> "sales_representative", required_skills |-> <<
        <<"S","a","l","e","s">>,
        <<"L","e","a","d"," ","G","e","n","e","r","a","t","i","o","n">>,
        <<"C","l","i","e","n","t"," ","R","e","l","a","t","i","o","n","s">>,
        <<"N","e","g","o","t","i","a","t","i","o","n">>,
        <<"C","o","m","m","u","n","i","c","a","t","i","o","n">>
    >>],
    [job_id |-> "account_manager", required_skills |-> <<
        <<"A","c","c","o","u","n","t"," ","M","a","n","a","g","e","m","e","n","t">>,
        <<"C","l","i","e","n","t"," ","R","e","l","a","t","i","o","n","s">>,
        <<"C","o","m","m","u","n","i","c","a","t","i","o","n">>,
        <<"N","e","g","o","t","i","a","t","i","o","n">>
    >>],
    [job_id |-> "retail_associate", required_skills |-> <<
        <<"C","u","s","t","o","m","e","r"," ","S","e","r","v","i","c","e">>,
        <<"R","e","t","a","i","l">>,
        <<"S","a","l","e","s">>,
        <<"P","o","i","n","t"," ","o","f"," ","S","a","l","e">>
    >>],
    [job_id |-> "customer_service_rep", required_skills |-> <<
        <<"C","u","s","t","o","m","e","r"," ","S","e","r","v","i","c","e">>,
        <<"C","o","m","m","u","n","i","c","a","t","i","o","n">>,
        <<"P","r","o","b","l","e","m"," ","S","o","l","v","i","n","g">>,
        <<"I","n","t","e","r","p","e","r","s","o","n","a","l"," ","S","k","i","l","l","s">>
    >>],
    [job_id |-> "nurse", required_skills |-> <<
        <<"P","a","t","i","e","n","t"," ","C","a","r","e">>,
        <<"C","l","i","n","i","c","a","l"," ","S","k","i","l","l","s">>,
        <<"M","e","d","i","c","a","l"," ","T","e","r","m","i","n","o","l","o","g","y">>,
        <<"H","e","a","l","t","h","c","a","r","e"," ","D","o","c","u","m","e","n","t","a","t","i","o","n">>
    >>],
    [job_id |-> "administrative_assistant", required_skills |-> <<
        <<"M","i","c","r","o","s","o","f","t"," ","O","f","f","i","c","e">>,
        <<"D","a","t","a"," ","E","n","t","r","y">>,
        <<"C","a","l","e","n","d","a","r"," ","M","a","n","a","g","e","m","e","n","t">>,
        <<"C","o","m","m","u","n","i","c","a","t","i","o","n">>
    >>],
    [job_id |-> "accountant", required_skills |-> <<
        <<"F","i","n","a","n","c","i","a","l"," ","A","n","a","l","y","s","i","s">>,
        <<"B","o","o","k","k","e","e","p","i","n","g">>,
        <<"E","x","c","e","l">>,
        <<"F","i","n","a","n","c","i","a","l"," ","R","e","p","o","r","t","i","n","g">>
    >>],
    [job_id |-> "hr_specialist", required_skills |-> <<
        <<"R","e","c","r","u","i","t","i","n","g">>,
        <<"E","m","p","l","o","y","e","e"," ","R","e","l","a","t","i","o","n","s">>,
        <<"T","r","a","i","n","i","n","g"," ","a","n","d"," ","D","e","v","e","l","o","p","m","e","n","t">>,
        <<"H","R","I","S">>
    >>],
    [job_id |-> "operations_manager", required_skills |-> <<
        <<"O","p","e","r","a","t","i","o","n","s"," ","M","a","n","a","g","e","m","e","n","t">>,
        <<"P","r","o","c","e","s","s"," ","I","m","p","r","o","v","e","m","e","n","t">>,
        <<"T","e","a","m"," ","L","e","a","d","e","r","s","h","i","p">>,
        <<"L","o","g","i","s","t","i","c","s">>
    >>],
    [job_id |-> "marketing_specialist", required_skills |-> <<
        <<"D","i","g","i","t","a","l"," ","M","a","r","k","e","t","i","n","g">>,
        <<"S","o","c","i","a","l"," ","M","e","d","i","a"," ","M","a","r","k","e","t","i","n","g">>,
        <<"C","o","n","t","e","n","t"," ","M","a","r","k","e","t","i","n","g">>,
        <<"A","n","a","l","y","t","i","c","s">>
    >>],
    [job_id |-> "business_analyst", required_skills |-> <<
        <<"A","n","a","l","y","t","i","c","a","l"," ","S","k","i","l","l","s">>,
        <<"D","a","t","a"," ","A","n","a","l","y","s","i","s">>,
        <<"R","e","q","u","i","r","e","m","e","n","t","s"," ","G","a","t","h","e","r","i","n","g">>,
        <<"C","o","m","m","u","n","i","c","a","t","i","o","n">>
    >>],
    [job_id |-> "data_analyst", required_skills |-> <<
        <<"P","y","t","h","o","n">>,
        <<"S","Q","L">>,
        <<"D","a","t","a"," ","A","n","a","l","y","s","i","s">>,
        <<"E","x","c","e","l">>,
        <<"D","a","t","a"," ","V","i","s","u","a","l","i","z","a","t","i","o","n">>
    >>]
>>

\* JobRecommender.CRITICAL_SKILLS
CRITICAL_SKILLS ==
    ("software_engineer" :> <<<<"P","y","t","h","o","n">>, <<"J","a","v","a">>, <<"S","Q","L">>, <<"G","i","t">>>>) @@
    ("data_scientist" :> <<<<"P","y","t","h","o","n">>, <<"M","a","c","h","i","n","e"," ","L","e","a","r","n","i","n","g">>, <<"S","Q","L">>, <<"S","t","a","t","i","s","t","i","c","s">>>>) @@
    ("frontend_developer" :> <<<<"J","a","v","a","S","c","r","i","p","t">>, <<"H","T","M","L">>, <<"C","S","S">>, <<"R","e","a","c","t">>>>) @@
    ("backend_developer" :> <<<<"P","y","t","h","o","n">>, <<"J","a","v","a">>, <<"S","Q","L">>, <<"R","E","S","T"," ","A","P","I">>>>) @@
    ("full_stack_developer" :> <<<<"J","a","v","a","S","c","r","i","p","t">>, <<"P","y","t","h","o","n">>, <<"R","e","a","c","t">>, <<"N","o","d","e",".","j","s">>>>) @@
    ("devops_engineer" :> <<<<"D","o","c","k","e","r">>, <<"K","u","b","e","r","n","e","t","e","s">>, <<"C","I","/","C","D">>, <<"A","W","S">>>>) @@
    ("machine_learning_engineer" :> <<<<"P","y","t","h","o","n">>, <<"T","e","n","s","o","r","F","l","o","w">>, <<"P","y","T","o","r","c","h">>, <<"M","a","c","h","i","n","e"," ","L","e","a","r","n","i","n","g">>>>) @@
    ("product_manager" :> <<<<"C","o","m","m","u","n","i","c","a","t","i","o","n">>, <<"S","t","r","a","t","e","g","y">>, <<"A","n","a","l","y","t","i","c","s">>>>) @@
    ("data_analyst" :> <<<<"P","y","t","h","o","n">>, <<"S","Q","L">>, <<"E","x","c","e","l">>, <<"T","a","b","l","e","a","u">>>>) @@
    ("cloud_architect" :> <<<<"A","W","S">>, <<"A","z","u","r","e">>, <<"D","o","c","k","e","r">>, <<"K","u","b","e","r","n","e","t","e","s">>>>) @@
    ("project_manager" :> <<<<"P","r","o","j","e","c","t"," ","P","l","a","n","n","i","n","g">>, <<"R","i","s","k"," ","M","a","n","a","g","e","m","e","n","t">>, <<"S","t","a","k","e","h","o","l","d","e","r"," ","M","a","n","a","g","e","m","e","n","t">>, <<"A","g","i","l","e">>>>) @@
    ("teacher" :> <<<<"C","u","r","r","i","c","u","l","u","m"," ","D","e","v","e","l","o","p","m","e","n","t">>, <<"L","e","s","s","o","n"," ","P","l","a","n","n","i","n","g">>, <<"C","l","a","s","s","r","o","o","m"," ","M","a","n","a","g","e","m","e","n","t">>, <<"T","e","a","c","h","i","n","g">>>>) @@
    ("sales_representative" :> <<<<"S","a","l","e","s">>, <<"L","e","a","d"," ","G","e","n","e","r","a","t","i","o","n">>, <<"C","o","m","m","u","n","i","c","a","t","i","o","n">>, <<"N","e","g","o","t","i","a","t","i","o","n">>>>) @@
    ("account_manager" :> <<<<"A","c","c","o","u","n","t"," ","M","a","n","a","g","e","m","e","n","t">>, <<"C","l","i","e","n","t"," ","R","e","l","a","t","i","o","n","s">>, <<"C","o","m","m","u","n","i","c","a","t","i","o","n">>, <<"N","e","g","o","t","i","a","t","i","o","n">>>>) @@
    ("retail_associate" :> <<<<"C","u","s","t","o","m","e","r"," ","S","e","r","v","i","c","e">>, <<"R","e","t","a","i","l">>, <<"S","a","l","e","s">>, <<"P","o","i","n","t"," ","o","f"," ","S","a","l","e">>>>) @@
    ("customer_service_rep" :> <<<<"C","u","s","t","o","m","e","r"," ","S","e","r","v","i","c","e">>, <<"C","o","m","m","u","n","i","c","a","t","i","o","n">>, <<"P","r","o","b","l","e","m"," ","S","o","l","v","i","n","g">>, <<"I","n","t","e","r","p","e","r","s","o","n","a","l"," ","S","k","i","l","l","s">>>>) @@
    ("nurse" :> <<<<"P","a","t","i","e","n","t"," ","C","a","r","e">>, <<"C","l","i","n","i","c","a","l"," ","S","k","i","l","l","s">>, <<"M","e","d","i","c","a","l"," ","T","e","r","m","i","n","o","l","o","g","y">>, <<"H","e","a","l","t","h","c","a","r","e"," ","D","o","c","u","m","e","n","t","a","t","i","o","n">>>>) @@
    ("administrative_assistant" :> <<<<"M","i","c","r","o","s","o","f","t"," ","O","f","f","i","c","e">>, <<"D","a","t","a"," ","E","n","t","r","y">>, <<"C","a","l","e","n","d","a","r"," ","M","a","n","a","g","e","m","e","n","t">>, <<"C","o","m","m","u","n","i","c","a","t","i","o","n">>>>) @@
    ("accountant" :> <<<<"F","i","n","a","n","c","i","a","l"," ","A","n","a","l","y","s","i","s">>, <<"B","o","o","k","k","e","e","p","i","n","g">>, <<"E","x","c","e","l">>, <<"F","i","n","a","n","c","i","a","l"," ","R","e","p","o","r","t","i","n","g">>>>) @@
    ("hr_specialist" :> <<<<"R","e","c","r","u","i","t","i","n","g">>, <<"E","m","p","l","o","y","e","e"," ","R","e","l","a","t","i","o","n","s">>, <<"T","r","a","i","n","i","n","g"," ","a","n","d"," ","D","e","v","e","l","o","p","m","e","n","t">>, <<"C","o","m","m","u","n","i","c","a","t","i","o","n">>>>) @@
    ("operations_manager" :> <<<<"O","p","e","r","a","t","i","o","n","s"," ","M","a","n","a","g","e","m","e","n","t">>, <<"P","r","o","c","e","s","s"," ","I","m","p","r","o","v","e","m","e","n","t">>, <<"T","e","a","m"," ","L","e","a","d","e","r","s","h","i","p">>, <<"L","o","g","i","s","t","i","c","s">>>>) @@
    ("marketing_specialist" :> <<<<"D","i","g","i","t","a","l"," ","M","a","r","k","e","t","i","n","g">>, <<"S","o","c","i","a","l"," ","M","e","d","i","a"," ","M","a","r","k","e","t","i","n","g">>, <<"C","o","n","t","e","n","t"," ","M","a","r","k","e","t","i","n","g">>, <<"A","n","a","l","y","t","i","c","s">>>>) @@
    ("business_analyst" :> <<<<"A","n","a","l","y","t","i","c","a","l"," ","S","k","i","l","l","s">>, <<"D","a","t","a"," ","A","n","a","l","y","s","i","s">>, <<"R","e","q","u","i","r","e","m","e","n","t","s"," ","G","a","t","h","e","r","i","n","g">>, <<"C","o","m","m","u","n","i","c","a","t","i","o","n">>>>)

\* related_mapping of _calculate_related_skill_boost
related_mapping ==
    (<<"p","y","t","h","o","n">> :> {<<"d","j","a","n","g","o">>, <<"f","l","a","s","k">>, <<"f","a","s","t","a","p","i">>, <<"p","a","n","d","a","s">>, <<"n","u","m","p","y">>}) @@
    (<<"j","a","v","a">> :> {<<"s","p","r","i","n","g">>, <<"k","o","t","l","i","n">>, <<"s","c","a","l","a">>}) @@
    (<<"j","a","v","a","s","c","r","i","p","t">> :> {<<"t","y","p","e","s","c","r","i","p","t">>, <<"r","e","a","c","t">>, <<"v","u","e">>, <<"n","o","d","e">>}) @@
    (<<"s","q","l">> :> {<<"p","o","s","t","g","r","e","s","q","l">>, <<"m","y","s","q","l">>, <<"m","o","n","g","o","d","b">>}) @@
    (<<"a","w","s">> :> {<<"a","z","u","r","e">>, <<"g","c","p">>, <<"d","o","c","k","e","r">>}) @@
    (<<"m","a","c","h","i","n","e"," ","l","e","a","r","n","i","n","g">> :> {<<"d","e","e","p"," ","l","e","a","r","n","i","n","g">>, <<"n","l","p">>, <<"t","e","n","s","o","r","f","l","o","w">>}) @@
    (<<"r","e","a","c","t">> :> {<<"r","e","d","u","x">>, <<"n","e","x","t",".","j","s">>, <<"g","a","t","s","b","y">>}) @@
    (<<"d","o","c","k","e","r">> :> {<<"k","u","b","e","r","n","e","t","e","s">>, <<"t","e","r","r","a","f","o","r","m">>, <<"j","e","n","k","i","n","s">>})


ToSet(s) == { s[i] : i \in 1..Len(s) }

\* Scores are fractions n / MatchScale; MatchScale is a common denominator of
\* every quotient the tables produce (1/4, 1/5, 3/60, 3/80, 2/100)
MatchScale == 1200

Min(a, b) == IF a < b THEN a ELSE b
Max(a, b) == IF a > b THEN a ELSE b

\* _calculate_related_skill_boost: 0.1 for each required skill with a related
\* skill among the candidate's, capped at 0.3
RelatedSkillBoost(required, candidate_skills) ==
    LET hits == { i \in 1..Len(required) :
                    /\ Lower(required[i]) \in DOMAIN related_mapping
                    /\ related_mapping[Lower(required[i])] \cap candidate_skills # {} }
    IN  Min(Cardinality(hits) * (MatchScale \div 10), 3 * (MatchScale \div 10))

\* round(x, 2) of x / MatchScale, in hundredths.  A sum that lies on a half
\* in exact arithmetic is a binary fraction just above or just below it:
\* RoundsUp lists the sums of the tables that lie above.
RoundsUp == { 570, 594, 618, 642 }
Round2(x) ==
    LET unit == MatchScale \div 100
        q == x \div unit
        r == x % unit
    IN  IF 2 * r < unit THEN q
        ELSE IF 2 * r > unit THEN q + 1
        ELSE IF x \in RoundsUp THEN q + 1 ELSE q

\* [s.lower() for s in job_data['required_skills']] and
\* [s.lower() for s in CRITICAL_SKILLS.get(job_id, [])], for each job of the
\* table
LowerSkills ==
    [id \in { JOB_ROLES[i].job_id : i \in 1..Len(JOB_ROLES) } |->
        LET job == JOB_ROLES[CHOOSE i \in 1..Len(JOB_ROLES) : JOB_ROLES[i].job_id = id]
            critical_list == IF id \in DOMAIN CRITICAL_SKILLS THEN CRITICAL_SKILLS[id] ELSE << >>
        IN  [required_skills |->
                [i \in 1..Len(job.required_skills) |-> Lower(job.required_skills[i])],
             critical_skills |->
                [i \in 1..Len(critical_list) |-> Lower(critical_list[i])]]]

\* _calculate_job_match; skill_match_percentage in hundredths
CalculateJobMatch(job, candidate_skills_lower) ==
    LET required_skills == LowerSkills[job.job_id].required_skills
        critical_skills == LowerSkills[job.job_id].critical_skills
        matched == candidate_skills_lower \cap ToSet(required_skills)
        missing == ToSet(required_skills) \ candidate_skills_lower
        base == IF Len(required_skills) > 0
                THEN (Cardinality(matched) * MatchScale) \div Len(required_skills)
                ELSE 0
        critical_matched == Cardinality(ToSet(critical_skills) \cap matched)
        critical_missing == Cardinality(ToSet(critical_skills) \cap missing)
        \* critical_score * 0.3 = (2 * matched - missing) * 3 / (20 * len)
        with_critical ==
            IF Len(critical_skills) > 0
            THEN Min(MatchScale,
                     base + ((2 * critical_matched - critical_missing) * 3 * MatchScale)
                                \div (20 * Len(critical_skills)))
            ELSE base
        related_boost == RelatedSkillBoost(required_skills, candidate_skills_lower)
        skill_match == Min(MatchScale, with_critical + (related_boost * 2) \div 10)
    IN  [job_id |-> job.job_id,
         skill_match_percentage |-> Round2(skill_match),
         matched_skills |-> matched,
         missing_skills |-> missing,
         critical_matched |-> critical_matched,
         critical_missing |-> critical_missing,
         related_skills_found |-> related_boost > 0]

\* _create_recommendation
CreateRecommendation(match_result) ==
    LET critical == ToSet(LowerSkills[match_result.job_id].critical_skills)
    IN  [job_id |-> match_result.job_id,
         match_score |-> match_result.skill_match_percentage,
         missing_critical_skills |-> match_result.missing_skills \cap critical]

\* the loop of recommend_jobs: the jobs at or above the 0.2 threshold, in
\* table order
RECURSIVE Candidates(_, _)
Candidates(results, i) ==
    IF i > Len(results) THEN << >>
    ELSE IF results[i].skill_match_percentage >= 20
         THEN <<CreateRecommendation(results[i])>> \o Candidates(results, i + 1)
         ELSE Candidates(results, i + 1)

\* list.sort(key=match_score, reverse=True): stable, equal scores keep
\* their order
RECURSIVE InsertByScore(_, _)
InsertByScore(sorted, x) ==
    IF Len(sorted) = 0 THEN <<x>>
    ELSE IF Head(sorted).match_score >= x.match_score
         THEN <<Head(sorted)>> \o InsertByScore(Tail(sorted), x)
         ELSE <<x>> \o sorted

RECURSIVE SortFrom(_, _, _)
SortFrom(sorted, s, i) ==
    IF i > Len(s) THEN sorted ELSE SortFrom(InsertByScore(sorted, s[i]), s, i + 1)

\* the list left in table order
Unsorted(s) == s

SortByMatchScore(s) == SortFrom(<< >>, s, 1)

\* recommendations[:top_n], top_n >= 0
Take(s, n) == SubSeq(s, 1, Min(n, Len(s)))

----------------------------------------------------------------------------
(* Quality scorer: ResumeScore, QualityScorer *)

\* Scores are fractions n / ScoreScale of a point
ScoreScale == 120
Pts(n) == n * ScoreScale

\* config.SCORING_WEIGHTS, in hundredths
SCORING_WEIGHTS ==
    [skill_relevance |-> 25, experience_clarity |-> 25, keyword_optimization |-> 20,
     structure_readability |-> 20, completeness |-> 10]

\* QualityScorer.ATS_KEYWORDS
ATS_KEYWORDS ==
    [technology |-> <<"agile", "scrum", "ci/cd", "devops", "microservices", "api", "cloud",
                      "python", "java", "javascript", "sql", "git", "docker", "kubernetes">>,
     general |-> <<"leadership", "teamwork", "communication", "problem-solving", "analytical",
                   "project management", "stakeholder", "strategy", "innovation">>,
     soft_skills |-> <<"collaboration", "adaptability", "critical thinking", "time management",
                       "attention to detail", "organization", "multitasking">>]

\* _score_ats_compatibility: headers, action_verbs
headers == <<"experience", "education", "skills", "summary">>
action_verbs == <<"led", "managed", "developed", "created", "implemented",
                  "designed", "analyzed", "improved", "increased">>

\* _get_grade with the letters B+ and B exchanged
GetGradeSwapped(overall) ==
    IF overall >= Pts(90) THEN "A+"
    ELSE IF overall >= Pts(80) THEN "A"
    ELSE IF overall >= Pts(70) THEN "B"
    ELSE IF overall >= Pts(60) THEN "B+"
    ELSE IF overall >= Pts(50) THEN "C+"
    ELSE IF overall >= Pts(40) THEN "C"
    ELSE "D"

\* ResumeScore._get_grade
GetGrade(overall) ==
    IF overall >= Pts(90) THEN "A+"
    ELSE IF overall >= Pts(80) THEN "A"
    ELSE IF overall >= Pts(70) THEN "B+"
    ELSE IF overall >= Pts(60) THEN "B"
    ELSE IF overall >= Pts(50) THEN "C+"
    ELSE IF overall >= Pts(40) THEN "C"
    ELSE "D"

\* _score_skill_relevance; profile.all_skills is the number of skills
ScoreSkillRelevance(data, profile) ==
    IF ~profile.some THEN Pts(50)
    ELSE LET total_skills == profile.v.all_skills
         IN  IF total_skills < 5 THEN Min(Pts(40), Pts(total_skills * 8))
             ELSE IF total_skills > 20 THEN Min(Pts(95), Pts(70 + (total_skills - 20) * 1))
             ELSE Pts(70) + ((total_skills - 5) * 5 * ScoreScale) \div 2

\* _score_experience_clarity: the points counted for durations and
\* descriptions are not part of the value returned
ScoreExperienceClarity(data) ==
    LET entries == data.experiences
        clear_entries == Cardinality({ i \in 1..Len(entries) :
                                         entries[i].role /\ entries[i].company })
        base_score == Min(Pts(40), Pts(Len(entries) * 10))
        clarity_bonus == (clear_entries * Pts(30)) \div Len(entries)
    IN  IF Len(entries) = 0 THEN Pts(20)
        ELSE Min(Pts(100), base_score + clarity_bonus)

\* _score_keyword_optimization; raw_text is the set of terms the lower-cased
\* text contains
ScoreKeywordOptimization(data) ==
    LET keywords == ATS_KEYWORDS.technology \o ATS_KEYWORDS.general \o ATS_KEYWORDS.soft_skills
        total_keywords == Len(keywords)
        found_keywords == Cardinality({ i \in 1..Len(keywords) : keywords[i] \in data.raw_text })
        keyword_score == (found_keywords * Pts(100)) \div total_keywords
        skill_count == data.technical_skills + data.soft_skills
    IN  IF total_keywords = 0 THEN Pts(50)
        ELSE IF skill_count > 10 THEN Min(Pts(100), keyword_score + Pts(10))
        ELSE keyword_score

Flag(b) == IF b THEN 1 ELSE 0

\* _score_structure_readability
ScoreStructureReadability(data) ==
    LET has_summary == data.summary
        has_skills == data.technical_skills > 0 \/ data.soft_skills > 0
        has_experience == Len(data.experiences) > 0
        has_education == data.education > 0
        sections_present == Flag(has_summary) + Flag(has_skills)
                            + Flag(has_experience) + Flag(has_education)
    IN  Min(Pts(100),
            Pts(50 + sections_present * 10
                + 5 * Flag(Len(data.email) > 0)
                + 5 * Flag(data.phone)
                + 5 * Flag(data.linkedin \/ data.github)
                + (IF data.projects > 0 THEN Min(10, data.projects * 5) ELSE 0)))

\* _score_completeness
ScoreCompleteness(data) ==
    Min(Pts(100),
        Pts(15 * Flag(data.summary)
            + 15 * Flag(data.technical_skills > 0 \/ data.soft_skills > 0)
            + 20 * Flag(Len(data.experiences) > 0)
            + 15 * Flag(data.education > 0)
            + 10 * Flag(data.certifications > 0)
            + 10 * Flag(data.projects > 0)
            + 5 * Flag(data.linkedin \/ data.github \/ data.website)))

\* _score_ats_compatibility
ScoreAtsCompatibility(data) ==
    LET found_headers == Cardinality({ i \in 1..Len(headers) : headers[i] \in data.raw_text })
        action_count == Cardinality({ i \in 1..Len(action_verbs) :
                                        action_verbs[i] \in data.raw_text })
        score == 70 + found_headers * 3
                 + 5 * Flag(Len(data.email) > 0 /\ "@" \in ToSet(data.email))
                 + 5 * Flag(data.phone)
                 + Min(10, action_count * 2)
    IN  Max(0, Min(Pts(100), Pts(score)))

\* score_resume with the ATS score taking a sixth share of the overall score
ScoreResumeWithAts(data, profile) ==
    LET skill_score == ScoreSkillRelevance(data, profile)
        experience_score == ScoreExperienceClarity(data)
        keyword_score == ScoreKeywordOptimization(data)
        structure_score == ScoreStructureReadability(data)
        completeness_score == ScoreCompleteness(data)
        ats_score == ScoreAtsCompatibility(data)
    IN  [overall_score |-> (skill_score + experience_score + keyword_score + structure_score
                            + completeness_score + ats_score) \div 6,
         skill_relevance_score |-> skill_score,
         experience_clarity_score |-> experience_score,
         keyword_optimization_score |-> keyword_score,
         structure_readability_score |-> structure_score,
         completeness_score |-> completeness_score,
         ats_compatibility_score |-> ats_score]

\* score_resume: the six scores and the weighted overall score
ScoreResume(data, profile) ==
    LET skill_score == ScoreSkillRelevance(data, profile)
        experience_score == ScoreExperienceClarity(data)
        keyword_score == ScoreKeywordOptimization(data)
        structure_score == ScoreStructureReadability(data)
        completeness_score == ScoreCompleteness(data)
        ats_score == ScoreAtsCompatibility(data)
        overall == (skill_score * SCORING_WEIGHTS.skill_relevance
                    + experience_score * SCORING_WEIGHTS.experience_clarity
                    + keyword_score * SCORING_WEIGHTS.keyword_optimization
                    + structure_score * SCORING_WEIGHTS.structure_readability
                    + completeness_score * SCORING_WEIGHTS.completeness) \div 100
    IN  [overall_score |-> overall,
         skill_relevance_score |-> skill_score,
         experience_clarity_score |-> experience_score,
         keyword_optimization_score |-> keyword_score,
         structure_readability_score |-> structure_score,
         completeness_score |-> completeness_score,
         ats_compatibility_score |-> ats_score]

----------------------------------------------------------------------------
(* Experience extraction: TxtParser._extract_experiences and the           *)
(* experience part of ResumeParser.parse_text.  A text is the sequence of  *)
(* its lines and a line is the sequence of its characters.                 *)

Spaces == {" "}
Digits == {"0", "1", "2", "3", "4", "5", "6", "7", "8", "9"}
Letters == ToSet(LowerCase)
Months == {<<"j", "a", "n">>, <<"f", "e", "b">>, <<"m", "a", "r">>, <<"a", "p", "r">>, <<"m", "a", "y">>, <<"j", "u", "n">>,
           <<"j", "u", "l">>, <<"a", "u", "g">>, <<"s", "e", "p">>, <<"o", "c", "t">>, <<"n", "o", "v">>, <<"d", "e", "c">>}

\* keyword in line: the line has the keyword as a substring
Contains(line, keyword) ==
    \E p \in 1..(Len(line) - Len(keyword) + 1) : SubSeq(line, p, p + Len(keyword) - 1) = keyword

\* Regular expressions are matched on positions: an expression takes the
\* set of positions a match may have reached and gives the set it may reach
\* next.  Lit: one of the strings alts; Rep0, Rep1: [class]* and [class]+;
\* Digits4: \d{4}.
Lit(line, from, alts) ==
    { q \in 1..(Len(line) + 1) :
        \E p \in from : \E a \in alts : q = p + Len(a) /\ SubSeq(line, p, q - 1) = a }
Rep0(line, from, class) ==
    { q \in 1..(Len(line) + 1) :
        \E p \in from : p <= q /\ \A i \in p..(q - 1) : line[i] \in class }
Rep1(line, from, class) ==
    { q \in 1..(Len(line) + 1) :
        \E p \in from : p < q /\ \A i \in p..(q - 1) : line[i] \in class }
Digits4(line, from) ==
    { q \in 1..(Len(line) + 1) :
        \E p \in from : q = p + 4 /\ \A i \in p..(q - 1) : line[i] \in Digits }

\* (?:jan|...|dec)[a-z]*\.?\s+\d{4}
MonthYear(line, from) ==
    LET name == Rep0(line, Lit(line, from, Months), Letters)
    IN  Digits4(line, Rep1(line, name \cup Lit(line, name, {<<".">>}), Spaces))

\* the body of date_pattern1, the line in lower case (re.I); the dashes of
\* the class are written "-"
DatePattern1(line, from) ==
    LET start == MonthYear(line, from) \cup Digits4(line, from)
        sep == Rep0(line, Rep1(line, Rep0(line, start, Spaces), {"-", "t", "o"}), Spaces)
    IN  Lit(line, sep, {<<"p", "r", "e", "s", "e", "n", "t">>, <<"c", "u", "r", "r", "e", "n", "t">>}) \cup Digits4(line, sep) \cup MonthYear(line, sep)

\* date_pattern2, case kept
DatePattern2(line) ==
    LET sep == Rep0(line, Rep1(line, Rep0(line, Digits4(line, {1}), Spaces), {"-", "t", "o"}), Spaces)
    IN  Digits4(line, sep) \cup Lit(line, sep, {<<"p", "r", "e", "s", "e", "n", "t">>, <<"c", "u", "r", "r", "e", "n", "t">>})

\* inline_date_pattern: group(1) of the match, or None
InlineDateMatch(line) ==
    LET lower == Lower(line)
        ends == { g \in 1..Len(line) :
                    DatePattern1(lower,
                        Rep0(lower, Lit(lower, Rep0(lower, {g + 1}, Spaces), {<<"-">>}), Spaces)) # {} }
    IN  IF ends = {} THEN None
        ELSE Some(SubSeq(line, 1, CHOOSE g \in ends : \A h \in ends : g <= h))

\* role_pattern: the stripped groups of the match, or None.  group(1) is
\* the shortest beginning that blanks and a dash follow, with text after
\* the dash.
RoleMatch(line) ==
    LET dashes == { d \in 2..(Len(line) - 1) : line[d] = "-" }
        ends == { g \in 1..(Len(line) - 2) :
                    \E d \in dashes : d > g /\ \A i \in (g + 1)..(d - 1) : line[i] \in Spaces }
    IN  IF ends = {} THEN None
        ELSE LET g == CHOOSE e \in ends : \A h \in ends : e <= h
                 d == CHOOSE e \in dashes : e > g /\ \A h \in dashes : h > g => e <= h
             IN  Some([role |-> Strip(SubSeq(line, 1, g)),
                       company |-> Strip(SubSeq(line, d + 1, Len(line)))])

\* line.startswith('-') or line.startswith('*')
IsBullet(line) == Len(line) > 0 /\ line[1] \in {"-", "*"}

\* Experience(role, company, duration, description)
Experience(role, company, duration_text, description) ==
    [role |-> role, company |-> company, duration |-> duration_text, description |-> description]

\* TxtParser._extract_experiences: section_headers, other_sections
section_headers == <<<<"e", "x", "p", "e", "r", "i", "e", "n", "c", "e">>, <<"e", "m", "p", "l", "o", "y", "m", "e", "n", "t">>, <<"w", "o", "r", "k", " ", "h", "i", "s", "t", "o", "r", "y">>, <<"p", "r", "o", "f", "e", "s", "s", "i", "o", "n", "a", "l", " ", "e", "x", "p", "e", "r", "i", "e", "n", "c", "e">>>>
other_sections == <<<<"e", "d", "u", "c", "a", "t", "i", "o", "n">>, <<"s", "k", "i", "l", "l", "s">>, <<"c", "e", "r", "t", "i", "f", "i", "c", "a", "t", "i", "o", "n", "s">>, <<"p", "r", "o", "j", "e", "c", "t", "s">>, <<"a", "w", "a", "r", "d", "s">>, <<"p", "u", "b", "l", "i", "c", "a", "t", "i", "o", "n", "s">>>>

\* any(keyword in line_lower for keyword in keywords)
AnyIn(keywords, line) ==
    LET line_lower == Strip(Lower(line))
    IN  \E i \in 1..Len(keywords) : Contains(line_lower, keywords[i])

\* any(header in line_lower ...) and ':' not in line and len(line) < 30
HeaderMatch(keywords, line) ==
    AnyIn(keywords, line) /\ ":" \notin ToSet(line) /\ Len(line) < 30

\* the matches of one line of exp_lines
EntryLineMatches(raw_line) ==
    LET line == Strip(raw_line)
    IN  [line |-> line,
         inline_date_match |-> InlineDateMatch(line),
         date_match |-> DatePattern1(Lower(line), {1}) # {} \/ DatePattern2(line) # {},
         role_match |-> RoleMatch(line),
         is_bullet |-> IsBullet(line)]

\* ResumeParser.parse_text: experience_keywords, education_keywords
experience_keywords == <<<<"e", "x", "p", "e", "r", "i", "e", "n", "c", "e">>, <<"w", "o", "r", "k", " ", "h", "i", "s", "t", "o", "r", "y">>, <<"p", "r", "o", "f", "e", "s", "s", "i", "o", "n", "a", "l", " ", "e", "x", "p", "e", "r", "i", "e", "n", "c", "e">>,
                         <<"e", "m", "p", "l", "o", "y", "m", "e", "n", "t", " ", "h", "i", "s", "t", "o", "r", "y">>, <<"w", "o", "r", "k", " ", "e", "x", "p", "e", "r", "i", "e", "n", "c", "e">>>>
education_keywords == <<<<"e", "d", "u", "c", "a", "t", "i", "o", "n">>, <<"a", "c", "a", "d", "e", "m", "i", "c">>, <<"d", "e", "g", "r", "e", "e">>, <<"u", "n", "i", "v", "e", "r", "s", "i", "t", "y">>, <<"c", "o", "l", "l", "e", "g", "e">>>>

\* role_patterns, searched in the lower-case line
IsRole(line_lower) ==
    LET seniority == {<<"s", "e", "n", "i", "o", "r">>, <<"j", "u", "n", "i", "o", "r">>, <<"l", "e", "a", "d">>, <<"p", "r", "i", "n", "c", "i", "p", "a", "l">>, <<"s", "t", "a", "f", "f">>}
        field1 == {<<"s", "o", "f", "t", "w", "a", "r", "e">>, <<"d", "a", "t", "a">>, <<"w", "e", "b">>, <<"d", "e", "v", "o", "p", "s">>, <<"c", "l", "o", "u", "d">>, <<"f", "r", "o", "n", "t", "e", "n", "d">>, <<"b", "a", "c", "k", "e", "n", "d">>,
                   <<"f", "u", "l", "l", "s", "t", "a", "c", "k">>, <<"m", "o", "b", "i", "l", "e">>}
        title1 == {<<"e", "n", "g", "i", "n", "e", "e", "r">>, <<"d", "e", "v", "e", "l", "o", "p", "e", "r">>, <<"a", "n", "a", "l", "y", "s", "t">>, <<"d", "e", "s", "i", "g", "n", "e", "r">>, <<"a", "r", "c", "h", "i", "t", "e", "c", "t">>, <<"m", "a", "n", "a", "g", "e", "r">>,
                   <<"d", "i", "r", "e", "c", "t", "o", "r">>, <<"s", "p", "e", "c", "i", "a", "l", "i", "s", "t">>, <<"c", "o", "n", "s", "u", "l", "t", "a", "n", "t">>}
        field2 == {<<"s", "o", "f", "t", "w", "a", "r", "e">>, <<"d", "a", "t", "a">>, <<"w", "e", "b">>, <<"d", "e", "v", "o", "p", "s">>, <<"c", "l", "o", "u", "d">>}
        title2 == {<<"e", "n", "g", "i", "n", "e", "e", "r">>, <<"d", "e", "v", "e", "l", "o", "p", "e", "r">>, <<"a", "n", "a", "l", "y", "s", "t">>}
        after1 == Rep0(line_lower, {1} \cup Lit(line_lower, {1}, seniority), Spaces)
        after2 == Rep0(line_lower, after1 \cup Lit(line_lower, after1, field1), Spaces)
        after3 == Rep0(line_lower, {1} \cup Lit(line_lower, {1}, field2), Spaces)
    IN  \/ Lit(line_lower, after2, title1) # {}
        \/ Lit(line_lower, after3, title2) # {}
        \/ Lit(line_lower, {1}, {<<"i", "n", "t", "e", "r", "n">>, <<"t", "r", "a", "i", "n", "e", "e">>, <<"a", "s", "s", "o", "c", "i", "a", "t", "e">>}) # {}

\* company_patterns, searched in the lower-case line
IsCompany(line_lower) ==
    \E word \in {<<"i", "n", "c">>, <<"l", "l", "c">>, <<"l", "t", "d">>, <<"c", "o", "r", "p">>, <<"c", "o", "r", "p", "o", "r", "a", "t", "i", "o", "n">>, <<"c", "o", "m", "p", "a", "n", "y">>, <<"c", "o", ".">>,
                 <<"t", "e", "c", "h", "n", "o", "l", "o", "g", "i", "e", "s">>, <<"t", "e", "c", "h">>, <<"s", "o", "l", "u", "t", "i", "o", "n", "s">>, <<"s", "e", "r", "v", "i", "c", "e", "s">>, <<"s", "y", "s", "t", "e", "m", "s">>, <<"s", "o", "f", "t", "w", "a", "r", "e">>,
                 <<"g", "o", "o", "g", "l", "e">>, <<"a", "m", "a", "z", "o", "n">>, <<"m", "i", "c", "r", "o", "s", "o", "f", "t">>, <<"a", "p", "p", "l", "e">>, <<"f", "a", "c", "e", "b", "o", "o", "k">>, <<"n", "e", "t", "f", "l", "i", "x">>, <<"m", "e", "t", "a">>,
                 <<"i", "b", "m">>, <<"o", "r", "a", "c", "l", "e">>, <<"s", "t", "a", "r", "t", "u", "p">>, <<"v", "e", "n", "t", "u", "r", "e", "s">>, <<"g", "r", "o", "u", "p">>, <<"p", "a", "r", "t", "n", "e", "r", "s">>, <<"a", "g", "e", "n", "c", "y">>,
                 <<"s", "t", "u", "d", "i", "o">>} :
        Contains(line_lower, word)

\* re.search(date_pattern, line): <<start, end>> of the leftmost match, or
\* None.  The separators of the pattern are "to" and "-" (its third is a
\* sequence of characters outside ASCII).
DateSearch(line) ==
    LET EndsFrom(s) ==
            LET sep == Rep0(line, Lit(line, Rep0(line, Digits4(line, {s}), Spaces),
                                      {<<"t", "o">>, <<"-">>}), Spaces)
            IN  Lit(line, sep, {<<"p", "r", "e", "s", "e", "n", "t">>, <<"c", "u", "r", "r", "e", "n", "t">>}) \cup Digits4(line, sep)
        starts == { s \in 1..Len(line) : EndsFrom(s) # {} }
    IN  IF starts = {} THEN None
        ELSE LET s == CHOOSE x \in starts : \A y \in starts : x <= y
             IN  Some(<<s, CHOOSE e \in EndsFrom(s) : \A f \in EndsFrom(s) : f <= e>>)

\* re.sub(date_pattern, '', line)
RECURSIVE RemoveDates(_)
RemoveDates(line) ==
    LET found == DateSearch(line)
    IN  IF ~found.some THEN line
        ELSE SubSeq(line, 1, found.v[1] - 1) \o RemoveDates(SubSeq(line, found.v[2], Len(line)))

\* ' '.join(description)
RECURSIVE JoinLines(_)
JoinLines(description) ==
    IF Len(description) = 0 THEN << >>
    ELSE IF Len(description) = 1 THEN description[1]
    ELSE description[1] \o <<" ">> \o JoinLines(Tail(description))

\* the matches of one line of the text, and the entry the line starts if
\* it starts one
TextLineMatches(line) ==
    LET line_lower == Strip(Lower(line))
        is_role == IsRole(line_lower)
        is_company == IsCompany(line_lower)
        has_dates == DateSearch(line_lower)
        rest == IF has_dates.some THEN Strip(RemoveDates(line)) ELSE line
    IN  [experience_keyword |-> AnyIn(experience_keywords, line),
         education_keyword |-> AnyIn(education_keywords, line),
         stripped |-> Strip(line),
         starts_entry |-> is_role \/ is_company \/ has_dates.some,
         started |->
            [role |-> IF is_role THEN Strip(rest) ELSE << >>,
             company |-> IF ~is_role /\ is_company THEN Strip(rest) ELSE << >>,
             duration |-> IF has_dates.some
                          THEN SubSeq(line_lower, has_dates.v[1], has_dates.v[2] - 1)
                          ELSE << >>,
             description |-> IF ~is_role /\ ~is_company THEN <<Strip(rest)>> ELSE << >>]]

----------------------------------------------------------------------------
(* The lines of the resume texts of the model *)

Opening == <<<<"J", "O", "H", "N", " ", "S", "M", "I", "T", "H">>, <<"j", "o", "h", "n", "@", "x", ".", "c", "o", "m">>, << >>, <<"E", "X", "P", "E", "R", "I", "E", "N", "C", "E">>>>
Closing == <<<< >>, <<"E", "D", "U", "C", "A", "T", "I", "O", "N">>, <<"B", "S", " ", "C", "o", "m", "p", "u", "t", "e", "r", " ", "S", "c", "i", "e", "n", "c", "e", " ", "-", " ", "M", "I", "T">>, <<"2", "0", "2", "0">>>>
RoleEntries ==
    { [role |-> <<"S", "o", "f", "t", "w", "a", "r", "e", " ", "E", "n", "g", "i", "n", "e", "e", "r">>, company |-> <<"T", "e", "c", "h", " ", "C", "o", "r", "p">>],
      [role |-> <<"D", "a", "t", "a", " ", "A", "n", "a", "l", "y", "s", "t">>, company |-> <<"A", "c", "m", "e", " ", "I", "n", "c">>] }
RoleLine(entry) == entry.role \o <<" ", "-", " ">> \o entry.company
RoleLines == { RoleLine(e) : e \in RoleEntries }
DateLines == { <<"J", "a", "n", " ", "2", "0", "2", "2", " ", "-", " ", "P", "r", "e", "s", "e", "n", "t">>, <<"2", "0", "1", "9", " ", "-", " ", "2", "0", "2", "1">> }
BulletLists == { << >>, <<<<"-", " ", "B", "u", "i", "l", "t", " ", "a", "p", "p", "s", " ", "u", "s", "i", "n", "g", " ", "P", "y", "t", "h", "o", "n">>>>,
                 <<<<"-", " ", "B", "u", "i", "l", "t", " ", "a", "p", "p", "s", " ", "u", "s", "i", "n", "g", " ", "P", "y", "t", "h", "o", "n">>, <<"*", " ", "L", "e", "d", " ", "a", " ", "t", "e", "a", "m">>>> }
\* a line of 504 characters
LongLine == <<"L", "e", "d", " ">> \o [i \in 1..500 |-> "a"]
OtherLines ==
    { LongLine, <<"W", "o", "r", "k", " ", "E", "x", "p", "e", "r", "i", "e", "n", "c", "e">>, <<"E", "d", "u", "c", "a", "t", "i", "o", "n", ":", " ", "M", "I", "T">>, <<"C", "o", "n", "t", "i", "n", "u", "i", "n", "g", " ", "e", "d", "u", "c", "a", "t", "i", "o", "n", " ", "i", "n", " ", "d", "a", "t", "a", " ", "s", "c", "i", "e", "n", "c", "e">>,
      <<"E", "x", "p", "e", "r", "i", "e", "n", "c", "e", ":", " ", "5", " ", "y", "e", "a", "r", "s">>, <<"E", "D", "U", "C", "A", "T", "I", "O", "N">>, <<"I", "n", "t", "e", "r", "n", " ", "-", " ", "2", "0", "1", "8", " ", "-", " ", "2", "0", "1", "9">>, <<"R", "e", "m", "o", "t", "e">>, << >>,
      <<"E", "n", "g", "i", "n", "e", "e", "r", " ", "-", " ", "J", "a", "n", " ", "2", "0", "2", "0", " ", "-", " ", "P", "r", "e", "s", "e", "n", "t">>, <<"-", " ", "L", "e", "d", " ", "t", "e", "a", "m", " ", "-", " ", "2", "0", "1", "9", " ", "-", " ", "2", "0", "2", "0">> }
BodyLines ==
    RoleLines \cup DateLines \cup OtherLines \cup UNION { ToSet(b) : b \in BulletLists }

\* The matches of a line depend on the line alone: those of the lines of the
\* texts are computed once
LineMatches(line) ==
    [section_header |-> HeaderMatch(section_headers, line),
     other_section |-> HeaderMatch(other_sections, line),
     entry |-> EntryLineMatches(line),
     text |-> TextLineMatches(line)]
\* The lines of the texts without a section header: blanks, a name, an
\* address and sentences that name skills, a degree and a deed
PlainLines ==
    { << >>, <<" ", " ", " ">>, <<"J", "a", "n", "e", " ", "R", "o", "e">>, <<"j", "a", "n", "e", "@", "r", "o", "e", ".", "i", "o">>, <<"I", " ", "b", "u", "i", "l", "d", " ", "t", "h", "i", "n", "g", "s", " ", "w", "i", "t", "h", " ", "P", "y", "t", "h", "o", "n", " ", "a", "n", "d", " ", "S", "Q", "L">>,
      <<"S", "h", "i", "p", "p", "e", "d", " ", "a", " ", "R", "e", "a", "c", "t", " ", "a", "p", "p", " ", "o", "n", " ", "A", "W", "S">>, <<"H", "o", "l", "d", "s", " ", "a", " ", "B", "S", " ", "i", "n", " ", "p", "h", "y", "s", "i", "c", "s", ",", " ", "l", "e", "d", " ", "a", " ", "c", "l", "u", "b">> }
KnownMatches ==
    [line \in ToSet(Opening) \cup ToSet(Closing) \cup BodyLines \cup PlainLines |->
        LineMatches(line)]
Matches(line) == KnownMatches[line]

----------------------------------------------------------------------------
(* The loops of the two extractors *)

\* The body of the loop over the lines of the text; m: the matches of the
\* line.  open[i] tells whether the loop collects lines after line i; lines
\* after the break are not read.
ScanLine(st, line, m) ==
    IF st.stopped
    THEN [st EXCEPT !.open = Append(@, FALSE)]
    ELSE IF m.section_header
    THEN [st EXCEPT !.in_exp_section = TRUE, !.exp_lines = << >>, !.open = Append(@, TRUE)]
    ELSE IF st.in_exp_section /\ m.other_section
    THEN [st EXCEPT !.stopped = TRUE, !.open = Append(@, FALSE)]
    ELSE [st EXCEPT !.exp_lines = IF st.in_exp_section THEN Append(@, line) ELSE @,
                    !.open = Append(@, st.in_exp_section)]

RECURSIVE ScanExperienceSection(_, _, _)
ScanExperienceSection(lines, i, st) ==
    IF i > Len(lines) THEN st
    ELSE ScanExperienceSection(lines, i + 1, ScanLine(st, lines[i], Matches(lines[i])))

\* current_exp, a dict: a key it lacks reads as the empty string
NoEntry == [role |-> << >>, company |-> << >>, duration |-> << >>, description |-> << >>]

\* Experience(...) of current_exp, the description cut to 500 characters
EntryOf(current_exp) ==
    Experience(current_exp.role, current_exp.company, current_exp.duration,
               SubSeq(current_exp.description, 1, Min(500, Len(current_exp.description))))

\* the body of the loop with the role/company test made before the test of
\* the inline dates
ParseEntryLineRoleFirst(st, m) ==
    LET line == m.line
        current_exp == st.current_exp
        complete == current_exp.role # << >> /\ current_exp.duration # << >>
    IN  IF line = << >> THEN st
        ELSE IF m.role_match.some /\ ~m.is_bullet /\ ~m.date_match
        THEN [st EXCEPT
                !.experiences = IF complete THEN Append(@, EntryOf(current_exp)) ELSE @,
                !.current_exp = IF complete THEN NoEntry ELSE @,
                !.pending_role = m.role_match]
        ELSE IF m.inline_date_match.some
        THEN [st EXCEPT
                !.experiences = IF complete THEN Append(@, EntryOf(current_exp)) ELSE @,
                !.current_exp = [NoEntry EXCEPT !.role = Strip(m.inline_date_match.v),
                                                !.duration = line]]
        ELSE IF m.date_match
        THEN [st EXCEPT !.current_exp.duration = line]
        ELSE st

\* the body of the loop over exp_lines; m: the matches of the line
ParseEntryLine(st, m) ==
    LET line == m.line
        current_exp == st.current_exp
        complete == current_exp.role # << >> /\ current_exp.duration # << >>
    IN  IF line = << >> THEN st
        ELSE IF m.inline_date_match.some
        THEN [st EXCEPT
                !.experiences = IF complete THEN Append(@, EntryOf(current_exp)) ELSE @,
                !.current_exp = [NoEntry EXCEPT !.role = Strip(m.inline_date_match.v),
                                                !.duration = line]]
        ELSE IF m.date_match
        THEN [st EXCEPT
                !.current_exp = IF st.pending_role.some
                                THEN [current_exp EXCEPT !.duration = line,
                                                         !.role = st.pending_role.v.role,
                                                         !.company = st.pending_role.v.company]
                                ELSE [current_exp EXCEPT !.duration = line],
                !.pending_role = None]
        ELSE IF m.role_match.some /\ ~m.is_bullet
        THEN [st EXCEPT
                !.experiences = IF complete THEN Append(@, EntryOf(current_exp)) ELSE @,
                !.current_exp = IF complete THEN NoEntry ELSE @,
                !.pending_role = m.role_match]
        ELSE IF m.is_bullet
        THEN [st EXCEPT !.current_exp.description = @ \o line \o <<" ">>]
        ELSE IF complete
        THEN [st EXCEPT !.current_exp.description = @ \o line \o <<" ">>]
        ELSE IF current_exp.role = << >>
        THEN [st EXCEPT !.current_exp.role = line]
        ELSE st

RECURSIVE ParseEntries(_, _, _)
ParseEntries(body, i, st) ==
    IF i > Len(body)
    THEN IF st.current_exp.role # << >>
         THEN Append(st.experiences, EntryOf(st.current_exp))
         ELSE st.experiences
    ELSE ParseEntries(body, i + 1, ParseEntryLine(st, Matches(body[i]).entry))

\* the entries of the lines the scan has collected
EntriesOf(scan) ==
    [exp_lines |-> scan.exp_lines,
     open |-> scan.open,
     experiences |-> ParseEntries(scan.exp_lines, 1,
                        [current_exp |-> NoEntry, pending_role |-> None,
                         experiences |-> << >>])]

\* _extract_experiences(text)
ExtractExperiences(lines) ==
    EntriesOf(ScanExperienceSection(lines, 1,
                  [in_exp_section |-> FALSE, exp_lines |-> << >>, open |-> << >>,
                   stopped |-> FALSE]))

\* the body of the loop over the lines; m: the matches of the line;
\* current_experience is None or a dict whose description is a list of lines
ParseTextLine(st, m) ==
        IF m.experience_keyword
        THEN [st EXCEPT !.in_experience_section = TRUE, !.open = Append(@, TRUE)]
        ELSE IF ~st.in_experience_section
        THEN [st EXCEPT !.open = Append(@, FALSE)]
        ELSE IF m.education_keyword
        THEN [st EXCEPT !.in_experience_section = FALSE, !.open = Append(@, FALSE)]
        ELSE IF Len(m.stripped) < 5
        THEN [st EXCEPT !.open = Append(@, TRUE)]
        ELSE IF m.starts_entry
        THEN [st EXCEPT
                !.experiences = IF st.current_experience.some
                                THEN Append(@, st.current_experience.v) ELSE @,
                !.current_experience = Some(m.started),
                !.open = Append(@, TRUE)]
        ELSE IF st.current_experience.some
        THEN [st EXCEPT !.current_experience.v.description = Append(@, m.stripped),
                        !.open = Append(@, TRUE)]
        ELSE [st EXCEPT !.open = Append(@, TRUE)]

RECURSIVE ParseTextLines(_, _, _)
ParseTextLines(lines, i, st) ==
    IF i > Len(lines)
    THEN [st EXCEPT !.experiences = IF st.current_experience.some
                                    THEN Append(@, st.current_experience.v) ELSE @]
    ELSE ParseTextLines(lines, i + 1, ParseTextLine(st, Matches(lines[i]).text))

\* the Experience objects of the dicts with a role or a description
RECURSIVE ToExperiences(_)
ToExperiences(dicts) ==
    IF Len(dicts) = 0 THEN << >>
    ELSE LET exp == Head(dicts)
         IN  (IF exp.role # << >> \/ Len(exp.description) > 0
              THEN <<Experience(exp.role, exp.company, exp.duration, JoinLines(exp.description))>>
              ELSE << >>)
             \o ToExperiences(Tail(dicts))

\* the Experience objects of the dicts the loop has built
ExperiencesOf(st) == [open |-> st.open, experiences |-> ToExperiences(st.experiences)]

\* parse_text(text): the experiences of the resume
ParseTextExperiences(lines) ==
    ExperiencesOf(ParseTextLines(lines, 1,
                      [in_experience_section |-> FALSE, current_experience |-> None,
                       experiences |-> << >>, open |-> << >>]))
----------------------------------------------------------------------------
(* The section scans of TxtParser *)

\* The four scans of TxtParser.parse: every scan reads the whole text with
\* its own section_headers, its own other_sections and its own length
\* limit (len(line) < 30 for the experience section, < 25 for the others).
SectionNames == {"experience", "education", "certifications", "projects"}
SectionScans ==
    [experience |->
        [section_headers |-> section_headers, other_sections |-> other_sections,
         limit |-> 30],
     education |->
        [section_headers |-> <<<<"e", "d", "u", "c", "a", "t", "i", "o", "n">>, <<"a", "c", "a", "d", "e", "m", "i", "c">>, <<"q", "u", "a", "l", "i", "f", "i", "c", "a", "t", "i", "o", "n", "s">>>>,
         other_sections |-> <<<<"e", "x", "p", "e", "r", "i", "e", "n", "c", "e">>, <<"s", "k", "i", "l", "l", "s">>, <<"c", "e", "r", "t", "i", "f", "i", "c", "a", "t", "i", "o", "n", "s">>, <<"p", "r", "o", "j", "e", "c", "t", "s">>,
                              <<"a", "w", "a", "r", "d", "s">>>>,
         limit |-> 25],
     certifications |->
        [section_headers |-> <<<<"c", "e", "r", "t", "i", "f", "i", "c", "a", "t", "i", "o", "n", "s">>, <<"c", "e", "r", "t", "i", "f", "i", "c", "a", "t", "e", "s">>, <<"l", "i", "c", "e", "n", "s", "e", "s">>>>,
         other_sections |-> <<<<"e", "x", "p", "e", "r", "i", "e", "n", "c", "e">>, <<"e", "d", "u", "c", "a", "t", "i", "o", "n">>, <<"s", "k", "i", "l", "l", "s">>, <<"p", "r", "o", "j", "e", "c", "t", "s">>>>,
         limit |-> 25],
     projects |->
        [section_headers |-> <<<<"p", "r", "o", "j", "e", "c", "t", "s">>, <<"p", "o", "r", "t", "f", "o", "l", "i", "o">>, <<"p", "e", "r", "s", "o", "n", "a", "l", " ", "p", "r", "o", "j", "e", "c", "t", "s">>>>,
         other_sections |-> <<<<"e", "x", "p", "e", "r", "i", "e", "n", "c", "e">>, <<"e", "d", "u", "c", "a", "t", "i", "o", "n">>, <<"s", "k", "i", "l", "l", "s">>, <<"c", "e", "r", "t", "i", "f", "i", "c", "a", "t", "i", "o", "n", "s">>>>,
         limit |-> 25]]

\* any(header in line_lower ...) and ':' not in line and len(line) < limit
HeaderLine(keywords, line, limit) ==
    AnyIn(keywords, line) /\ ":" \notin ToSet(line) /\ Len(line) < limit

\* The lines of the documents of the section scans: headers of the four
\* sections, among them headers only one scan knows and a header of 25 to 29
\* characters, a header of no scan, and lines of content
HeaderSamples ==
    { <<"E", "X", "P", "E", "R", "I", "E", "N", "C", "E">>, <<"E", "D", "U", "C", "A", "T", "I", "O", "N">>, <<"C", "E", "R", "T", "I", "F", "I", "C", "A", "T", "I", "O", "N", "S">>, <<"P", "R", "O", "J", "E", "C", "T", "S">>, <<"E", "M", "P", "L", "O", "Y", "M", "E", "N", "T">>,
      <<"A", "C", "A", "D", "E", "M", "I", "C", " ", "B", "A", "C", "K", "G", "R", "O", "U", "N", "D">>, <<"P", "R", "O", "F", "E", "S", "S", "I", "O", "N", "A", "L", " ", "W", "O", "R", "K", " ", "E", "X", "P", "E", "R", "I", "E", "N", "C", "E">>, <<"S", "K", "I", "L", "L", "S">> }
ContentSamples == { <<"S", "o", "f", "t", "w", "a", "r", "e", " ", "E", "n", "g", "i", "n", "e", "e", "r", " ", "-", " ", "T", "e", "c", "h", " ", "C", "o", "r", "p">>, <<"B", "S", " ", "C", "o", "m", "p", "u", "t", "e", "r", " ", "S", "c", "i", "e", "n", "c", "e", " ", "-", " ", "M", "I", "T">>, << >> }
DocumentLines == HeaderSamples \cup ContentSamples

\* what each scan finds of each line; computed once
ScanMatches ==
    [name \in SectionNames |->
        [line \in DocumentLines |->
            [section_header |-> HeaderLine(SectionScans[name].section_headers, line,
                                           SectionScans[name].limit),
             other_section |-> HeaderLine(SectionScans[name].other_sections, line,
                                          SectionScans[name].limit)]]]

\* The body of the loop of a scan; m: the matches of line i.  The body of
\* the section is kept as the positions of its lines in the text.
SectionScanLine(st, i, m) ==
    IF st.stopped THEN st
    ELSE IF m.section_header
    THEN [st EXCEPT !.in_section = TRUE, !.body = << >>]
    ELSE IF st.in_section /\ m.other_section
    THEN [st EXCEPT !.stopped = TRUE]
    ELSE IF st.in_section
    THEN [st EXCEPT !.body = Append(@, i)]
    ELSE st

RECURSIVE ScanSection(_, _, _, _)
ScanSection(name, lines, i, st) ==
    IF i > Len(lines) THEN st.body
    ELSE ScanSection(name, lines, i + 1,
                     SectionScanLine(st, i, ScanMatches[name][lines[i]]))

\* the bodies the four _extract_ functions of parse() work on
SectionBodies(lines) ==
    [name \in SectionNames |->
        ScanSection(name, lines, 1, [in_section |-> FALSE, body |-> << >>,
                                     stopped |-> FALSE])]
----------------------------------------------------------------------------
(* Gap analysis and roadmap: SkillAnalyzer.calculate_skill_gap,           *)
(* JobRecommender.get_skill_gap_analysis and get_career_roadmap.  Of the   *)
(* result of a known role the title of the job, the learning resources,    *)
(* the suggestions and the texts of the roadmap steps are left out.        *)

JobIds == { JOB_ROLES[i].job_id : i \in 1..Len(JOB_ROLES) }

\* SkillAnalyzer.calculate_skill_gap; match_percentage in hundredths
CalculateSkillGap(profile_skills, target_role) ==
    IF target_role \notin JobIds
    THEN [error |-> "Unknown role: " \o target_role]
    ELSE LET candidate_skills == { Lower(s) : s \in profile_skills }
             required_skills_lower == ToSet(LowerSkills[target_role].required_skills)
             matched == candidate_skills \cap required_skills_lower
             missing == required_skills_lower \ candidate_skills
         IN  [matched_skills |-> matched,
              missing_skills |-> missing,
              match_percentage |->
                  IF required_skills_lower # {}
                  THEN (Cardinality(matched) * 100) \div Cardinality(required_skills_lower)
                  ELSE 100]

\* JobRecommender.get_skill_gap_analysis; match_percentage in percent
GetSkillGapAnalysis(profile_skills, target_job_id) ==
    IF target_job_id \notin JobIds
    THEN [error |-> "Unknown job: " \o target_job_id]
    ELSE LET required_skills == LowerSkills[target_job_id].required_skills
             candidate_skills_lower == { Lower(s) : s \in profile_skills }
             matched == candidate_skills_lower \cap ToSet(required_skills)
             missing == ToSet(required_skills) \ candidate_skills_lower
             critical_missing ==
                 missing \cap ToSet(LowerSkills[target_job_id].critical_skills)
         IN  [match_percentage |-> (Cardinality(matched) * 100) \div Len(required_skills),
              matched_skills |-> matched,
              critical_missing_skills |-> critical_missing,
              important_missing_skills |-> missing \ critical_missing]

\* JobRecommender.get_career_roadmap: the phases of the steps
GetCareerRoadmap(profile_skills, current_level, target_job_id) ==
    IF target_job_id \notin JobIds
    THEN [error |-> "Unknown job target"]
    ELSE LET gap_analysis == GetSkillGapAnalysis(profile_skills, target_job_id)
         IN  [current_level |-> current_level,
              steps |-> (IF gap_analysis.critical_missing_skills # {}
                         THEN <<"Immediate Priority">> ELSE << >>)
                        \o <<"Portfolio Building", "Interview Prep">>]
----------------------------------------------------------------------------
(* The request pipeline: parse, analyze_skills, analyze_experience,        *)
(* recommend_jobs, score_resume                                            *)

\* not self.raw_text.strip(): the extracted text holds blanks only
BlankText(lines) == \A i \in 1..Len(lines) : Strip(lines[i]) = << >>

\* ResumeData(): the fields of a new object.  linkedin, github and website
\* are None or a link; the model keeps whether there is one.
NewResumeData(lines, file_type) ==
    [raw_text |-> lines, file_type |-> file_type, full_name |-> << >>,
     email |-> << >>, phone |-> << >>, linkedin |-> FALSE, github |-> FALSE,
     website |-> FALSE, summary |-> << >>, technical_skills |-> {}, soft_skills |-> {},
     tools |-> {}, experiences |-> << >>, education |-> << >>, certifications |-> << >>,
     projects |-> << >>]

\* PDFParser.parse: the summary of the data returned for a text of blanks
scan_note ==
    <<"N", "o", "t", "e", ":", " ", "T", "h", "i", "s", " ", "P", "D", "F", " ", "a", "p", "p", "e", "a", "r", "s", " ", "t", "o", " ", "b", "e", " ", "i", "m", "a", "g", "e", "-", "b", "a", "s", "e", "d", " ", "o", "r", " ", "s", "c", "a", "n", "n", "e", "d", ".", " ", "T", "e", "x", "t", " ", "e", "x", "t", "r", "a", "c", "t", "i", "o", "n", " ", "w", "a", "s", " ", "n", "o", "t", " ", "p", "o", "s", "s", "i", "b", "l", "e", ".", " ", "P", "l", "e", "a", "s", "e", " ", "t", "r", "y", " ", "u", "p", "l", "o", "a", "d", "i", "n", "g", " ", "a", " ", "t", "e", "x", "t", "-", "b", "a", "s", "e", "d", " ", "P", "D", "F", " ", "o", "r", " ", "c", "o", "p", "y", "-", "p", "a", "s", "t", "e", " ", "y", "o", "u", "r", " ", "r", "e", "s", "u", "m", "e", " ", "c", "o", "n", "t", "e", "n", "t", " ", "u", "s", "i", "n", "g", " ", "t", "h", "e", " ", "Q", "u", "i", "c", "k", " ", "A", "n", "a", "l", "y", "s", "i", "s", " ", "f", "e", "a", "t", "u", "r", "e", ".">>

\* PDFParser.parse when _extract_text() gives a text of blanks
PDFParserParseBlank(lines) == [NewResumeData(lines, "pdf") EXCEPT !.summary = scan_note]

\* \b: a word boundary before position p of the line
WordChars == Letters \cup ToSet(UpperCase) \cup Digits \cup {"_"}
IsWordAt(line, p) == p >= 1 /\ p <= Len(line) /\ line[p] \in WordChars
Boundary(line, p) == IsWordAt(line, p - 1) # IsWordAt(line, p)

\* email_pattern: the positions a match that starts at s may end before
EmailEndsFrom(line, s) ==
    LET local == Rep1(line, {s}, WordChars \cup {".", "%", "+", "-"})
        domain == Rep1(line, Lit(line, local, {<<"@">>}), (WordChars \ {"_"}) \cup {".", "-"})
        tld == Letters \cup ToSet(UpperCase) \cup {"|"}
        top == Rep1(line, Rep1(line, Lit(line, domain, {<<".">>}), tld), tld)
    IN  { e \in top : Boundary(line, e) }

\* re.findall(email_pattern, line)[0]: the leftmost match, each repetition
\* as long as it can be; None when there is no match
EmailIn(line) ==
    LET starts == { s \in 1..Len(line) : Boundary(line, s) /\ EmailEndsFrom(line, s) # {} }
    IN  IF starts = {} THEN None
        ELSE LET s == CHOOSE x \in starts : \A y \in starts : x <= y
                 e == CHOOSE x \in EmailEndsFrom(line, s) : \A y \in EmailEndsFrom(line, s) : y <= x
             IN  Some(SubSeq(line, s, e - 1))

\* phone_pattern within one line: \+?1?\s?\(?\d{3}\)?[\s.-]?\d{3}[\s.-]?\d{4}
Digits3(line, from) ==
    { q \in 1..(Len(line) + 1) :
        \E p \in from : q = p + 3 /\ \A i \in p..(q - 1) : line[i] \in Digits }
Opt(line, from, alts) == from \cup Lit(line, from, alts)
PhoneEndsFrom(line, s) ==
    LET area == Opt(line, Digits3(line, Opt(line, Opt(line, Opt(line, Opt(line, {s},
                        {<<"+">>}), {<<"1">>}), {<<" ">>}), {<<"(">>})), {<<")">>})
        mid == Digits3(line, Opt(line, area, {<<" ">>, <<".">>, <<"-">>}))
    IN  Digits4(line, Opt(line, mid, {<<" ">>, <<".">>, <<"-">>}))
PhoneIn(line) ==
    LET starts == { s \in 1..Len(line) : PhoneEndsFrom(line, s) # {} }
    IN  IF starts = {} THEN None
        ELSE LET s == CHOOSE x \in starts : \A y \in starts : x <= y
                 e == CHOOSE x \in PhoneEndsFrom(line, s) : \A y \in PhoneEndsFrom(line, s) : y <= x
             IN  Some(SubSeq(line, s, e - 1))

\* len(line.split()): the number of words of a line
RECURSIVE WordCount(_, _)
WordCount(line, p) ==
    IF p > Len(line) THEN 0
    ELSE (IF line[p] # " " /\ (p = 1 \/ line[p - 1] = " ") THEN 1 ELSE 0) + WordCount(line, p + 1)

\* parse_text: whether the stripped line can be the name
skip_words == {<<"s", "u", "m", "m", "a", "r", "y">>, <<"e", "x", "p", "e", "r", "i", "e", "n", "c", "e">>, <<"e", "d", "u", "c", "a", "t", "i", "o", "n">>, <<"s", "k", "i", "l", "l", "s">>, <<"c", "e", "r", "t", "i", "f", "i", "c", "a", "t", "i", "o", "n", "s">>,
               <<"p", "r", "o", "j", "e", "c", "t", "s">>, <<"c", "o", "n", "t", "a", "c", "t">>, <<"e", "m", "a", "i", "l">>, <<"p", "h", "o", "n", "e">>, <<"l", "i", "n", "k", "e", "d", "i", "n">>, <<"g", "i", "t", "h", "u", "b">>,
               <<"r", "e", "s", "u", "m", "e">>, <<"c", "v">>}
NameLine(line) ==
    LET stripped == Strip(line)
    IN  /\ stripped # << >>
        /\ WordCount(stripped, 1) <= 4
        /\ "@" \notin ToSet(stripped)
        /\ ToSet(stripped) \cap Digits = {}
        /\ Lower(stripped) \notin skip_words

\* the names of SKILL_CATEGORIES whose lower-case form is in the lower-case
\* line: found_skills
KnownSkills == UNION { ToSet(SKILL_CATEGORIES[c].skills) : c \in 1..Len(SKILL_CATEGORIES) }
SkillsIn(line) == { s \in KnownSkills : Contains(Lower(line), Lower(s)) }

\* parse_text, the education loop: education_keywords of the loop, and
\* degree_patterns written as the strings they match (an optional dot at
\* the end of a pattern adds nothing to a search)
education_section_keywords ==
    <<<<"e", "d", "u", "c", "a", "t", "i", "o", "n">>, <<"a", "c", "a", "d", "e", "m", "i", "c">>, <<"d", "e", "g", "r", "e", "e">>, <<"u", "n", "i", "v", "e", "r", "s", "i", "t", "y">>, <<"c", "o", "l", "l", "e", "g", "e">>, <<"s", "c", "h", "o", "o", "l">>>>
degree_strings ==
    {<<"b", "a", "c", "h", "e", "l", "o", "r">>, <<"m", "a", "s", "t", "e", "r">>, <<"p", "h", "d">>, <<"b", "s">>, <<"b", "a">>, <<"m", "s">>, <<"m", "a">>, <<"m", "b", "a">>, <<"a", "s", "s", "o", "c", "i", "a", "t", "e">>,
     <<"b", ".", "s">>, <<"b", ".", "a">>, <<"m", ".", "s">>, <<"m", ".", "a">>, <<"m", ".", "b", "a">>, <<"m", "b", ".", "a">>, <<"m", ".", "b", ".", "a">>, <<"p", "h", ".", "d">>,
     <<"b", "t", "e", "c", "h">>, <<"b", ".", "t", "e", "c", "h">>, <<"m", "t", "e", "c", "h">>, <<"m", ".", "t", "e", "c", "h">>, <<"b", "e">>, <<"b", ".", "e">>, <<"m", "e">>, <<"m", ".", "e">>,
     <<"c", "o", "m", "p", "u", "t", "e", "r", " ", "s", "c", "i", "e", "n", "c", "e">>, <<"e", "n", "g", "i", "n", "e", "e", "r", "i", "n", "g">>, <<"m", "a", "t", "h", "e", "m", "a", "t", "i", "c", "s">>, <<"p", "h", "y", "s", "i", "c", "s">>,
     <<"i", "n", "f", "o", "r", "m", "a", "t", "i", "o", "n", " ", "t", "e", "c", "h", "n", "o", "l", "o", "g", "y">>, <<"s", "o", "f", "t", "w", "a", "r", "e", " ", "e", "n", "g", "i", "n", "e", "e", "r", "i", "n", "g">>, <<"d", "a", "t", "a", " ", "s", "c", "i", "e", "n", "c", "e">>, <<"a", "i">>,
     <<"m", "a", "c", "h", "i", "n", "e", " ", "l", "e", "a", "r", "n", "i", "n", "g">>}
EducationLine(line) ==
    LET line_lower == Strip(Lower(line))
    IN  /\ Len(Strip(line)) >= 5
        /\ \/ \E d \in degree_strings : Contains(line_lower, d)
           \/ \E w \in {<<"u", "n", "i", "v", "e", "r", "s", "i", "t", "y">>, <<"c", "o", "l", "l", "e", "g", "e">>, <<"i", "n", "s", "t", "i", "t", "u", "t", "e">>} : Contains(line_lower, w)

\* what parse_text finds of one line; computed once for the lines of the
\* requests
LineFacts(line) ==
    [email |-> EmailIn(line), phone |-> PhoneIn(line), name |-> NameLine(line),
     skills |-> SkillsIn(line),
     education_keyword |-> AnyIn(education_section_keywords, line),
     experience_keyword |-> AnyIn(experience_keywords, line),
     education |-> EducationLine(line)]

\* the first match of a pattern in the text: that of the first line with one
RECURSIVE FirstFound(_, _)
FirstFound(found, i) ==
    IF i > Len(found) THEN << >>
    ELSE IF found[i].some THEN found[i].v
    ELSE FirstFound(found, i + 1)

\* the first line of lines[:10] that can be the name, stripped
RECURSIVE FirstName(_, _, _)
FirstName(lines, facts, i) ==
    IF i > Len(lines) \/ i > 10 THEN << >>
    ELSE IF facts[i].name THEN Strip(lines[i])
    ELSE FirstName(lines, facts, i + 1)

\* the education loop: the Education objects appended, given by their lines
RECURSIVE EducationEntries(_, _, _, _)
EducationEntries(lines, facts, i, in_education_section) ==
    IF i > Len(lines) THEN << >>
    ELSE IF facts[i].education_keyword
    THEN EducationEntries(lines, facts, i + 1, TRUE)
    ELSE IF in_education_section /\ facts[i].experience_keyword
    THEN EducationEntries(lines, facts, i + 1, FALSE)
    ELSE (IF in_education_section /\ facts[i].education THEN <<lines[i]>> ELSE << >>)
         \o EducationEntries(lines, facts, i + 1, in_education_section)

\* ResumeParser.parse_text(text, "txt"): TextParser.parse.  facts: the
\* LineFacts of the lines; parsed: ParseTextExperiences(lines)
TextParserParse(lines, facts, parsed) ==
    [NewResumeData(lines, "txt") EXCEPT
        !.email = FirstFound([i \in 1..Len(lines) |-> facts[i].email], 1),
        !.phone = FirstFound([i \in 1..Len(lines) |-> facts[i].phone], 1),
        !.full_name = FirstName(lines, facts, 1),
        !.technical_skills = UNION { facts[i].skills : i \in 1..Len(lines) },
        !.experiences = parsed.experiences,
        !.education = EducationEntries(lines, facts, 1, FALSE)]

\* resume_data after analyze_skills with the text of the emerging skills
\* built in place (resume_data.summary += " " + ...)
ResumeDataWithJoinedSummary(data) ==
    [data EXCEPT !.summary = @ \o <<" ">> \o JoinLines([i \in 1..Len(data.experiences) |->
                                                        data.experiences[i].description])]

\* resume_data after analyze_skills: the lists of the resume are copied
\* into a new list with extend(), the summary and the descriptions are
\* joined into a new string, and no field of resume_data is assigned
ResumeDataAfterAnalyzeSkills(data) == data

\* SkillAnalyzer.analyze_skills: all_skills of the profile, the normalized
\* names of the skills of the resume and of those its descriptions name
\* (the other fields of the profile are computed from all_skills)
AnalyzeSkills(data) ==
    LET collected ==
            data.technical_skills \cup data.soft_skills \cup data.tools
            \cup UNION { SkillsIn(data.experiences[i].description) :
                           i \in 1..Len(data.experiences) }
    IN  [all_skills |-> { NormalizeSkill(s).normalized : s \in collected }]

\* config.EXPERIENCE_THRESHOLDS and _determine_career_level; years in tenths
EXPERIENCE_THRESHOLDS ==
    [fresher |-> 0, junior |-> 10, mid |-> 30, senior |-> 50, lead |-> 80, architect |-> 100]
\* the levels with each threshold counted into the level below it
DetermineCareerLevelUpTo(years) ==
    IF years <= EXPERIENCE_THRESHOLDS.junior THEN "fresher"
    ELSE IF years <= EXPERIENCE_THRESHOLDS.mid THEN "junior"
    ELSE IF years <= EXPERIENCE_THRESHOLDS.senior THEN "mid-level"
    ELSE IF years <= EXPERIENCE_THRESHOLDS.lead THEN "senior"
    ELSE IF years <= EXPERIENCE_THRESHOLDS.architect THEN "lead"
    ELSE "architect"

\* _determine_career_level
DetermineCareerLevel(years) ==
    IF years < EXPERIENCE_THRESHOLDS.junior THEN "fresher"
    ELSE IF years < EXPERIENCE_THRESHOLDS.mid THEN "junior"
    ELSE IF years < EXPERIENCE_THRESHOLDS.senior THEN "mid-level"
    ELSE IF years < EXPERIENCE_THRESHOLDS.lead THEN "senior"
    ELSE IF years < EXPERIENCE_THRESHOLDS.architect THEN "lead"
    ELSE "architect"

LEADERSHIP_KEYWORDS ==
    {<<"l", "e", "d">>, <<"m", "a", "n", "a", "g", "e", "d">>, <<"m", "e", "n", "t", "o", "r", "e", "d">>, <<"d", "i", "r", "e", "c", "t", "e", "d">>, <<"h", "e", "a", "d", "e", "d">>, <<"o", "v", "e", "r", "s", "a", "w">>, <<"s", "u", "p", "e", "r", "v", "i", "s", "e", "d">>,
     <<"c", "o", "o", "r", "d", "i", "n", "a", "t", "e", "d">>, <<"s", "p", "e", "a", "r", "h", "e", "a", "d", "e", "d">>, <<"c", "h", "a", "m", "p", "i", "o", "n", "e", "d">>, <<"b", "u", "i", "l", "t", " ", "t", "e", "a", "m">>}
SENIOR_KEYWORDS ==
    {<<"s", "e", "n", "i", "o", "r">>, <<"s", "r">>, <<"l", "e", "a", "d">>, <<"p", "r", "i", "n", "c", "i", "p", "a", "l">>, <<"s", "t", "a", "f", "f">>, <<"h", "e", "a", "d">>, <<"d", "i", "r", "e", "c", "t", "o", "r">>, <<"v", "p">>, <<"c", "h", "i", "e", "f">>}
JUNIOR_KEYWORDS == {<<"j", "u", "n", "i", "o", "r">>, <<"j", "r">>, <<"a", "s", "s", "o", "c", "i", "a", "t", "e">>, <<"e", "n", "t", "r", "y">>, <<"i", "n", "t", "e", "r", "n">>, <<"t", "r", "a", "i", "n", "e", "e">>}

\* _determine_level_from_roles
DetermineLevelFromRoles(entries) ==
    LET Has(keywords) == \E i \in 1..Len(entries) :
                             \E k \in keywords : Contains(Lower(entries[i].role), k)
    IN  IF Len(entries) = 0 THEN "fresher"
        ELSE IF Has(SENIOR_KEYWORDS) /\ ~Has(JUNIOR_KEYWORDS) THEN "senior"
        ELSE IF Has(JUNIOR_KEYWORDS) /\ ~Has(SENIOR_KEYWORDS) THEN "junior"
        ELSE "mid"

\* _check_leadership
CheckLeadership(data) ==
    \E i \in 1..Len(data.experiences) :
        \E k \in LEADERSHIP_KEYWORDS :
            Contains(Lower(data.experiences[i].role \o <<" ">> \o data.experiences[i].description), k)

\* The duration texts the extraction gives, as the tokens of the duration
\* parser
DurationTokens ==
    (<< >> :> << >>) @@
    (<<"j", "a", "n", " ", "2", "0", "2", "2", " ", "-", " ", "p", "r", "e", "s", "e", "n", "t">> :> <<Mon("jan"), Yr(2022), Dash, Now("present")>>) @@
    (<<"2", "0", "1", "9", " ", "-", " ", "2", "0", "2", "1">> :> <<Yr(2019), Dash, Yr(2021)>>) @@
    (<<"2", "0", "1", "8", " ", "-", " ", "2", "0", "1", "9">> :> <<Yr(2018), Dash, Yr(2019)>>) @@
    (<<"2", "0", "1", "0", " ", "-", " ", "2", "0", "2", "0">> :> <<Yr(2010), Dash, Yr(2020)>>) @@
    (<<"6", " ", "m", "o", "n", "t", "h", "s">> :> <<Num(6), Unit("months")>>)

\* ExperienceAnalyzer.analyze_experience: the years, the level and the
\* leadership flag of the profile (its other fields describe the text and
\* no later stage reads them)
AnalyzeExperience(data, now) ==
    LET years == CalculateTotalYears(
                     [i \in 1..Len(data.experiences) |->
                         DurationTokens[data.experiences[i].duration]], now)
        role_level == DetermineLevelFromRoles(data.experiences)
    IN  [total_years |-> years,
         career_level |-> IF role_level # "mid" THEN role_level
                          ELSE DetermineCareerLevel(years),
         leadership_experience |-> CheckLeadership(data)]

\* JobRecommender.recommend_jobs(skill_profile, experience_profile, top_n)
RecommendJobsFor(profile, n) ==
    LET candidate_skills_lower == { Lower(s) : s \in profile.all_skills }
        results == [i \in 1..Len(JOB_ROLES) |->
                       CalculateJobMatch(JOB_ROLES[i], candidate_skills_lower)]
    IN  Take(SortByMatchScore(Candidates(results, 1)), n)

\* The terms the quality scorer looks for, as characters
TermChars ==
    ("agile" :> <<"a", "g", "i", "l", "e">>) @@
    ("scrum" :> <<"s", "c", "r", "u", "m">>) @@
    ("ci/cd" :> <<"c", "i", "/", "c", "d">>) @@
    ("devops" :> <<"d", "e", "v", "o", "p", "s">>) @@
    ("microservices" :> <<"m", "i", "c", "r", "o", "s", "e", "r", "v", "i", "c", "e", "s">>) @@
    ("api" :> <<"a", "p", "i">>) @@
    ("cloud" :> <<"c", "l", "o", "u", "d">>) @@
    ("python" :> <<"p", "y", "t", "h", "o", "n">>) @@
    ("java" :> <<"j", "a", "v", "a">>) @@
    ("javascript" :> <<"j", "a", "v", "a", "s", "c", "r", "i", "p", "t">>) @@
    ("sql" :> <<"s", "q", "l">>) @@
    ("git" :> <<"g", "i", "t">>) @@
    ("docker" :> <<"d", "o", "c", "k", "e", "r">>) @@
    ("kubernetes" :> <<"k", "u", "b", "e", "r", "n", "e", "t", "e", "s">>) @@
    ("leadership" :> <<"l", "e", "a", "d", "e", "r", "s", "h", "i", "p">>) @@
    ("teamwork" :> <<"t", "e", "a", "m", "w", "o", "r", "k">>) @@
    ("communication" :> <<"c", "o", "m", "m", "u", "n", "i", "c", "a", "t", "i", "o", "n">>) @@
    ("problem-solving" :> <<"p", "r", "o", "b", "l", "e", "m", "-", "s", "o", "l", "v", "i", "n", "g">>) @@
    ("analytical" :> <<"a", "n", "a", "l", "y", "t", "i", "c", "a", "l">>) @@
    ("project management" :> <<"p", "r", "o", "j", "e", "c", "t", " ", "m", "a", "n", "a", "g", "e", "m", "e", "n", "t">>) @@
    ("stakeholder" :> <<"s", "t", "a", "k", "e", "h", "o", "l", "d", "e", "r">>) @@
    ("strategy" :> <<"s", "t", "r", "a", "t", "e", "g", "y">>) @@
    ("innovation" :> <<"i", "n", "n", "o", "v", "a", "t", "i", "o", "n">>) @@
    ("collaboration" :> <<"c", "o", "l", "l", "a", "b", "o", "r", "a", "t", "i", "o", "n">>) @@
    ("adaptability" :> <<"a", "d", "a", "p", "t", "a", "b", "i", "l", "i", "t", "y">>) @@
    ("critical thinking" :> <<"c", "r", "i", "t", "i", "c", "a", "l", " ", "t", "h", "i", "n", "k", "i", "n", "g">>) @@
    ("time management" :> <<"t", "i", "m", "e", " ", "m", "a", "n", "a", "g", "e", "m", "e", "n", "t">>) @@
    ("attention to detail" :> <<"a", "t", "t", "e", "n", "t", "i", "o", "n", " ", "t", "o", " ", "d", "e", "t", "a", "i", "l">>) @@
    ("organization" :> <<"o", "r", "g", "a", "n", "i", "z", "a", "t", "i", "o", "n">>) @@
    ("multitasking" :> <<"m", "u", "l", "t", "i", "t", "a", "s", "k", "i", "n", "g">>) @@
    ("experience" :> <<"e", "x", "p", "e", "r", "i", "e", "n", "c", "e">>) @@
    ("education" :> <<"e", "d", "u", "c", "a", "t", "i", "o", "n">>) @@
    ("skills" :> <<"s", "k", "i", "l", "l", "s">>) @@
    ("summary" :> <<"s", "u", "m", "m", "a", "r", "y">>) @@
    ("led" :> <<"l", "e", "d">>) @@
    ("managed" :> <<"m", "a", "n", "a", "g", "e", "d">>) @@
    ("developed" :> <<"d", "e", "v", "e", "l", "o", "p", "e", "d">>) @@
    ("created" :> <<"c", "r", "e", "a", "t", "e", "d">>) @@
    ("implemented" :> <<"i", "m", "p", "l", "e", "m", "e", "n", "t", "e", "d">>) @@
    ("designed" :> <<"d", "e", "s", "i", "g", "n", "e", "d">>) @@
    ("analyzed" :> <<"a", "n", "a", "l", "y", "z", "e", "d">>) @@
    ("improved" :> <<"i", "m", "p", "r", "o", "v", "e", "d">>) @@
    ("increased" :> <<"i", "n", "c", "r", "e", "a", "s", "e", "d">>)

\* the terms a text holds in lower case
TermsIn(lines) ==
    { t \in DOMAIN TermChars : \E i \in 1..Len(lines) : Contains(Lower(lines[i]), TermChars[t]) }

\* What score_resume reads of the resume and of the profile
ScoredData(data) ==
    [summary |-> data.summary # << >>,
     technical_skills |-> Cardinality(data.technical_skills),
     soft_skills |-> Cardinality(data.soft_skills),
     experiences |-> [i \in 1..Len(data.experiences) |->
                         [role |-> data.experiences[i].role # << >>,
                          company |-> data.experiences[i].company # << >>]],
     education |-> Len(data.education), email |-> data.email,
     phone |-> data.phone # << >>, linkedin |-> data.linkedin, github |-> data.github,
     website |-> data.website, projects |-> Len(data.projects),
     certifications |-> Len(data.certifications), raw_text |-> TermsIn(data.raw_text)]
ScoredProfile(profile) == Some([all_skills |-> Cardinality(profile.all_skills)])
----------------------------------------------------------------------------
(* The skill profile: SkillAnalyzer.analyze_skills and                    *)
(* SkillNormalizer.identify_primary_skills.  Scores are in hundredths.    *)

\* identify_primary_skills: priority_categories
priority_categories ==
    <<"programming_languages", "frameworks_libraries", "tools_platforms", "data_science",
      "devops_cloud", "soft_skills">>

\* len(priority_categories) - priority_categories.index(category), or 0
CategoryBoost(category) ==
    IF \E i \in 1..Len(priority_categories) : priority_categories[i] = category
    THEN Len(priority_categories) + 1
            - (CHOOSE i \in 1..Len(priority_categories) : priority_categories[i] = category)
    ELSE 0

\* the keys of skill_scores in the order of their insertion: the normalized
\* names of the skills, each at its first occurrence
RECURSIVE ScoreKeys(_, _, _)
ScoreKeys(skills, i, keys) ==
    IF i > Len(skills) THEN keys
    ELSE LET key == NormalizeSkill(skills[i]).normalized
         IN  ScoreKeys(skills, i + 1, IF key \in ToSet(keys) THEN keys ELSE Append(keys, key))

\* the tuple (skill, category, round(total_score, 2)) of a key: count is
\* the number of the skills with the key, category and confidence are those
\* of the first of them
ScoredSkill(skills, key) ==
    LET with_key == { i \in 1..Len(skills) : NormalizeSkill(skills[i]).normalized = key }
        first == NormalizeSkill(skills[CHOOSE i \in with_key : \A j \in with_key : i <= j])
    IN  [skill |-> key,
         category |-> first.category,
         score |-> Cardinality(with_key) * 50 + CategoryBoost(first.category) * 30
                       + first.confidence \div 5]

\* scored_skills.sort(key=lambda x: x[2], reverse=True): stable
RECURSIVE InsertBySkillScore(_, _)
InsertBySkillScore(sorted, x) ==
    IF Len(sorted) = 0 THEN <<x>>
    ELSE IF Head(sorted).score >= x.score
         THEN <<Head(sorted)>> \o InsertBySkillScore(Tail(sorted), x)
         ELSE <<x>> \o sorted

RECURSIVE SortScored(_, _, _)
SortScored(sorted, s, i) ==
    IF i > Len(s) THEN sorted ELSE SortScored(InsertBySkillScore(sorted, s[i]), s, i + 1)

\* identify_primary_skills(skills)
IdentifyPrimarySkills(skills) ==
    LET keys == ScoreKeys(skills, 1, << >>)
    IN  SortScored(<< >>, [k \in 1..Len(keys) |-> ScoredSkill(skills, keys[k])], 1)

\* list(set(names)): the names in one of the orders a set may give them
Orderings(S) ==
    { f \in [1..Cardinality(S) -> S] : \A i, j \in 1..Cardinality(S) : f[i] = f[j] => i = j }

\* analyze_skills: all_skills in the order the set gave, and the two lists
\* cut from scored_skills at mid_point
SkillProfileOf(all_skills_list, scored_skills) ==
    LET mid_point == Max(Len(scored_skills) \div 3, 1)
    IN  [all_skills |-> all_skills_list,
         primary_skills |-> SubSeq(scored_skills, 1, Min(mid_point, Len(scored_skills))),
         secondary_skills |-> SubSeq(scored_skills, mid_point + 1, Len(scored_skills))]
----------------------------------------------------------------------------
(* Specifications *)

\* The duration texts of the model: every year range "start - end" of the
\* recognised years, and texts over a few boundary years that reach the
\* other rules
YearSamples == {1899, 1900, 2020, 2022, 2099, 2100}
NowYears == {2025, 2026}
YearRangeTexts == { <<Yr(a), Dash, Yr(b)>> : a \in YearLo..YearHi, b \in YearLo..YearHi }
OtherTexts ==
    { <<Yr(a), To, Yr(b)>> : a \in YearSamples, b \in YearSamples }
    \cup { <<Yr(a), Dash, Yr(b)>> : a \in YearSamples, b \in YearSamples }
    \cup { <<Mon("Jan"), Yr(a), Dash, Now(e)>> : a \in YearSamples, e \in {"Present", "current", "now"} }
    \cup { <<Mon("Mar"), Yr(a), Dash, Mon("Jan"), Yr(b)>> : a \in YearSamples, b \in YearSamples }
    \cup { <<Num(n), u>> : n \in {0, 3, 18}, u \in {Unit("years"), Unit("months")} }
    \cup { <<Num(3), Tok("mark", "+", 0), Unit("years")>>,
           <<Num(2), Unit("years"), Num(6), Unit("months")>>,
           <<Num(6), Unit("months"), Yr(2020), Dash, Yr(2022)>>,
           <<Yr(2020), Dash, Yr(2022), Num(5), Unit("years")>>,
           <<Num(6), Unit("months"), Num(2), Unit("years")>>,
           <<Mon("Jan"), Num(98), Dash, Mon("Dec"), Num(99)>>,
           <<Mon("Jan"), Num(98), Dash, Mon("Dec"), Num(99), Num(2), Unit("years")>>,
           <<Yr(1899), Dash, Yr(2020), Num(3), Unit("years")>>,
           <<W("Contract")>>, << >> }
DurationTexts == YearRangeTexts \cup OtherTexts

\* the components a request does not use stay as constructed
IdleDuration == duration = << >> /\ current_year = 0 /\ months = None
NoSkill == NormalizedSkill(<< >>, << >>, "", 0, FALSE, {})
IdleNormalizer == skill = << >> /\ normalized_skill = NoSkill /\ renormalized_skill = NoSkill
IdleScore == resume_data = << >> /\ skill_profile = None /\ resume_score = << >>
IdleGrade == overall_scores = << >> /\ grades = << >>
IdleExtract ==
    /\ parser = "" /\ text = << >> /\ exp_lines = << >>
    /\ section_open = << >> /\ experiences = << >>
IdleSegment == document = << >> /\ section_bodies = << >>
IdleGap ==
    /\ requested_role = "" /\ gap_skills = {} /\ career_level = ""
    /\ operation = "" /\ gap_result = << >>
IdleTotal == durations = << >> /\ total_years = 0
IdleApi ==
    /\ api_request = << >> /\ api_resume_data = << >> /\ api_skill_profile = << >>
    /\ experience_profile = << >> /\ job_recommendations = << >> /\ api_resume_score = << >>
    /\ handled = 0 /\ analyzer_state = << >>
IdleProfile == collected_skills = << >> /\ built_profile = << >>
IdleMatch ==
    all_skills = {} /\ top_n = 0 /\ match_results = << >> /\ recommendations = << >>

InitDuration ==
    /\ pc = "parse"
    /\ duration \in DurationTexts
    /\ current_year \in NowYears
    /\ months = None
    /\ IdleNormalizer /\ IdleMatch /\ IdleScore /\ IdleGrade /\ IdleExtract /\ IdleSegment /\ IdleGap /\ IdleTotal /\ IdleApi /\ IdleProfile

\* exp.duration -> _parse_duration(exp.duration)
ParseDuration ==
    /\ pc = "parse"
    /\ months' = ParseDurationText(duration, current_year)
    /\ pc' = "done"
    /\ UNCHANGED <<duration, current_year, normVars, matchVars, scoreVars, gradeVars, extractVars, segmentVars, gapVars, totalVars, apiVars, profileVars>>

NextDuration == ParseDuration

SpecDuration == InitDuration /\ [][NextDuration]_vars


\* The skill strings of the model: every alias, every canonical name of the
\* taxonomy as written and in lower case, the special cases, and tokens the
\* tables do not know
CanonicalNames ==
    UNION { { SKILL_CATEGORIES[c].skills[j] : j \in 1..Len(SKILL_CATEGORIES[c].skills) } :
            c \in 1..Len(SKILL_CATEGORIES) }
UnknownTokens ==
    { <<"f","o","o">>, <<"F","#">>, <<"i","O","S">>, <<"J","S">>, <<" ","r","u","s","t"," ">>,
      <<"T","a","b","l","e","a","u">>, <<"u","n","i","t"," ","t","e","s","t","s">>,
      <<"P","L","/","S","Q","L">>, <<"k","8","s"," ">> }
SkillInputs ==
    DOMAIN SKILL_ALIASES \cup CanonicalNames \cup { Lower(n) : n \in CanonicalNames }
    \cup DOMAIN special_cases \cup UnknownTokens

InitNormalize ==
    /\ pc = "normalize"
    /\ skill \in SkillInputs
    /\ normalized_skill = NoSkill
    /\ renormalized_skill = NoSkill
    /\ IdleDuration /\ IdleMatch /\ IdleScore /\ IdleGrade /\ IdleExtract /\ IdleSegment /\ IdleGap /\ IdleTotal /\ IdleApi /\ IdleProfile

\* normalize(skill)
Normalize ==
    /\ pc = "normalize"
    /\ normalized_skill' = NormalizeSkill(skill)
    /\ pc' = "renormalize"
    /\ UNCHANGED <<skill, renormalized_skill, durVars, matchVars, scoreVars, gradeVars, extractVars, segmentVars, gapVars, totalVars, apiVars, profileVars>>

\* normalize(normalize(skill).normalized)
Renormalize ==
    /\ pc = "renormalize"
    /\ renormalized_skill' = NormalizeSkill(normalized_skill.normalized)
    /\ pc' = "done"
    /\ UNCHANGED <<skill, normalized_skill, durVars, matchVars, scoreVars, gradeVars, extractVars, segmentVars, gapVars, totalVars, apiVars, profileVars>>

NextNormalize == Normalize \/ Renormalize

SpecNormalize == InitNormalize /\ [][NextNormalize]_vars



\* The skill profiles of the model: for each job of the table, every subset
\* of its required and critical skills, joined with one related skill for
\* each of a subset of its required skills.  The names are normalized names,
\* as analyze_skills collects them.
MaxTopN == 3
DefaultTopN == 10
TopNs == 0..MaxTopN \cup {DefaultTopN}
RoleSkills(job) ==
    { NormalizeSkill(s).normalized :
        s \in ToSet(job.required_skills) \cup
              (IF job.job_id \in DOMAIN CRITICAL_SKILLS
               THEN ToSet(CRITICAL_SKILLS[job.job_id]) ELSE {}) }
RelatedKeys(job) ==
    { Lower(s) : s \in ToSet(job.required_skills) } \cap DOMAIN related_mapping
RelatedSample(key) ==
    NormalizeSkill(CHOOSE x \in related_mapping[key] : TRUE).normalized
SkillSets ==
    UNION { { known \cup { RelatedSample(k) : k \in keys } :
                known \in SUBSET RoleSkills(JOB_ROLES[r]),
                keys \in SUBSET RelatedKeys(JOB_ROLES[r]) } :
            r \in 1..Len(JOB_ROLES) }

InitMatch ==
    /\ pc = "recommend"
    /\ all_skills \in SkillSets
    /\ top_n \in TopNs
    /\ match_results = << >>
    /\ recommendations = << >>
    /\ IdleDuration /\ IdleNormalizer /\ IdleScore /\ IdleGrade /\ IdleExtract /\ IdleSegment /\ IdleGap /\ IdleTotal /\ IdleApi /\ IdleProfile

\* recommend_jobs(skill_profile, top_n)
RecommendJobs ==
    /\ pc = "recommend"
    /\ LET candidate_skills_lower == { Lower(s) : s \in all_skills }
           results == [i \in 1..Len(JOB_ROLES) |->
                          CalculateJobMatch(JOB_ROLES[i], candidate_skills_lower)]
       IN  /\ match_results' = results
           /\ recommendations' = Take(SortByMatchScore(Candidates(results, 1)), top_n)
    /\ pc' = "done"
    /\ UNCHANGED <<all_skills, top_n, durVars, normVars, scoreVars, gradeVars, extractVars, segmentVars, gapVars, totalVars, apiVars, profileVars>>

NextMatch == RecommendJobs

SpecMatch == InitMatch /\ [][NextMatch]_vars


\* The resumes of the model.  A resume is a skill profile, a list of
\* experiences, the ATS keywords, the headers and the action verbs its text
\* contains, and its other fields; the text is the set of the terms it
\* contains.  Each of the five parts ranges over all its values while the
\* others are at their least or their greatest.
MaxSkills == 46
MaxExperiences == 5
MaxProjects == 3
Prefix(s, n) == { s[i] : i \in 1..n }
Profiles == {None} \cup { Some([all_skills |-> n]) : n \in 0..MaxSkills }
ExperienceKinds ==
    { [role |-> TRUE, company |-> TRUE], [role |-> TRUE, company |-> FALSE],
      [role |-> FALSE, company |-> FALSE] }
ExperienceLists == UNION { [1..k -> ExperienceKinds] : k \in 0..MaxExperiences }
KeywordList == ATS_KEYWORDS.technology \o ATS_KEYWORDS.general \o ATS_KEYWORDS.soft_skills
KeywordSets == { Prefix(KeywordList, m) : m \in 0..Len(KeywordList) }
HeaderVerbSets ==
    { Prefix(headers, h) \cup Prefix(action_verbs, v) :
        h \in 0..Len(headers), v \in 0..Len(action_verbs) }
FieldRecords ==
    [summary : BOOLEAN, technical_skills : {0, 5, 11}, soft_skills : {0, 5},
     education : {0, 1}, email : {<< >>, <<"a", "@", "b">>}, phone : BOOLEAN,
     linkedin : BOOLEAN, github : BOOLEAN, website : BOOLEAN,
     projects : 0..MaxProjects, certifications : {0, 1}]
Least(S) == CHOOSE x \in S : \A y \in S : x \subseteq y
Greatest(S) == CHOOSE x \in S : \A y \in S : y \subseteq x
ProfileEnds == { Some([all_skills |-> 0]), Some([all_skills |-> MaxSkills]) }
ExperienceEnds == { << >>, [i \in 1..MaxExperiences |-> [role |-> TRUE, company |-> TRUE]] }
KeywordEnds == { Least(KeywordSets), Greatest(KeywordSets) }
HeaderVerbEnds == { Least(HeaderVerbSets), Greatest(HeaderVerbSets) }
FieldEnds ==
    { [summary |-> b, technical_skills |-> IF b THEN 11 ELSE 0, soft_skills |-> IF b THEN 5 ELSE 0,
       education |-> IF b THEN 1 ELSE 0, email |-> IF b THEN <<"a", "@", "b">> ELSE << >>,
       phone |-> b, linkedin |-> b, github |-> b, website |-> b,
       projects |-> IF b THEN MaxProjects ELSE 0, certifications |-> IF b THEN 1 ELSE 0] :
      b \in BOOLEAN }
ResumeInputs ==
    (Profiles \X ExperienceEnds \X KeywordEnds \X HeaderVerbEnds \X FieldEnds)
    \cup (ProfileEnds \X ExperienceLists \X KeywordEnds \X HeaderVerbEnds \X FieldEnds)
    \cup (ProfileEnds \X ExperienceEnds \X KeywordSets \X HeaderVerbEnds \X FieldEnds)
    \cup (ProfileEnds \X ExperienceEnds \X KeywordEnds \X HeaderVerbSets \X FieldEnds)
    \cup (ProfileEnds \X ExperienceEnds \X KeywordEnds \X HeaderVerbEnds \X FieldRecords)
ResumeData(entries, keywords, headerVerbs, fields) ==
    [summary |-> fields.summary, technical_skills |-> fields.technical_skills,
     soft_skills |-> fields.soft_skills, experiences |-> entries,
     education |-> fields.education, email |-> fields.email, phone |-> fields.phone,
     linkedin |-> fields.linkedin, github |-> fields.github, website |-> fields.website,
     projects |-> fields.projects, certifications |-> fields.certifications,
     raw_text |-> keywords \cup headerVerbs]

InitScore ==
    /\ pc = "score"
    /\ \E input \in ResumeInputs :
          /\ skill_profile = input[1]
          /\ resume_data = ResumeData(input[2], input[3], input[4], input[5])
    /\ resume_score = << >>
    /\ IdleDuration /\ IdleNormalizer /\ IdleMatch /\ IdleGrade /\ IdleExtract /\ IdleSegment /\ IdleGap /\ IdleTotal /\ IdleApi /\ IdleProfile

\* score_resume(resume_data, skill_profile)
ScoreResumeCall ==
    /\ pc = "score"
    /\ resume_score' = ScoreResume(resume_data, skill_profile)
    /\ pc' = "done"
    /\ UNCHANGED <<resume_data, skill_profile, durVars, normVars, matchVars, gradeVars, extractVars, segmentVars, gapVars, totalVars, apiVars, profileVars>>

NextScore == ScoreResumeCall

SpecScore == InitScore /\ [][NextScore]_vars


\* The overall scores of the model: the whole points of the range and the
\* nearest fractions on either side of each step of the grade
FullScore == 100
GradeSteps == <<40, 50, 60, 70, 80, 90>>
OverallScores ==
    { Pts(s) : s \in 0..FullScore }
    \cup { Pts(GradeSteps[i]) + d : i \in 1..Len(GradeSteps), d \in {-1, 1} }

InitGrade ==
    /\ pc = "grade"
    /\ overall_scores \in OverallScores \X OverallScores
    /\ grades = << >>
    /\ IdleDuration /\ IdleNormalizer /\ IdleMatch /\ IdleScore /\ IdleExtract /\ IdleSegment /\ IdleGap /\ IdleTotal /\ IdleApi /\ IdleProfile

\* ResumeScore._get_grade() of two scores
Grade ==
    /\ pc = "grade"
    /\ grades' = <<GetGrade(overall_scores[1]), GetGrade(overall_scores[2])>>
    /\ pc' = "done"
    /\ UNCHANGED <<overall_scores, durVars, normVars, matchVars, scoreVars, extractVars, segmentVars, gapVars, totalVars, apiVars, profileVars>>

NextGrade == Grade

SpecGrade == InitGrade /\ [][NextGrade]_vars


\* The resume texts of the model.  Every text starts with a name, an
\* address, a blank line and the header EXPERIENCE; the body after it is any
\* sequence of at most MaxBody lines of BodyLines, or one or two entries
\* (a role line and a date line in either order, then up to two bullets)
\* with at most one other line between them, or up to MaxBlocks entries
\* without bullets; the text ends there or goes on with the education
\* section.
MaxBody == 3
MaxBlocks == 3
RoleFirst == { <<r, d>> \o b : r \in RoleLines, d \in DateLines, b \in BulletLists }
DateFirst == { <<d, r>> \o b : r \in RoleLines, d \in DateLines, b \in BulletLists }
RECURSIVE Repeated(_, _)
Repeated(blocks, k) ==
    IF k = 0 THEN { << >> }
    ELSE { a \o b : a \in blocks, b \in Repeated(blocks, k - 1) }
Bodies ==
    UNION { [1..n -> BodyLines] : n \in 0..MaxBody }
    \cup { a \o m \o b : a \in RoleFirst \cup DateFirst,
                         m \in {<< >>} \cup { <<l>> : l \in OtherLines },
                         b \in RoleFirst \cup DateFirst }
    \cup UNION { Repeated({ e \in RoleFirst : Len(e) = 2 }, k) : k \in 1..MaxBlocks }
    \cup UNION { Repeated({ e \in DateFirst : Len(e) = 2 }, k) : k \in 1..MaxBlocks }
Texts == { Opening \o body \o ending : body \in Bodies, ending \in { << >>, Closing } }

InitExtract ==
    /\ pc = "extract"
    /\ parser \in {"TxtParser", "ResumeParser"}
    /\ text \in Texts
    /\ exp_lines = << >>
    /\ section_open = << >>
    /\ experiences = << >>
    /\ IdleDuration /\ IdleNormalizer /\ IdleMatch /\ IdleScore /\ IdleGrade /\ IdleSegment /\ IdleGap /\ IdleTotal /\ IdleApi /\ IdleProfile

\* TxtParser._extract_experiences(text)
TxtExtractExperiences ==
    /\ pc = "extract"
    /\ parser = "TxtParser"
    /\ \E result \in {ExtractExperiences(text)} :
           /\ exp_lines' = result.exp_lines
           /\ section_open' = result.open
           /\ experiences' = result.experiences
    /\ pc' = "done"
    /\ UNCHANGED <<parser, text, durVars, normVars, matchVars, scoreVars, gradeVars, segmentVars, gapVars, totalVars, apiVars, profileVars>>

\* ResumeParser.parse_text(text): the experiences
ParseText ==
    /\ pc = "extract"
    /\ parser = "ResumeParser"
    /\ \E result \in {ParseTextExperiences(text)} :
           /\ section_open' = result.open
           /\ experiences' = result.experiences
    /\ pc' = "done"
    /\ UNCHANGED <<parser, text, exp_lines, durVars, normVars, matchVars, scoreVars, gradeVars, segmentVars, gapVars, totalVars, apiVars, profileVars>>

NextExtract == TxtExtractExperiences \/ ParseText

SpecExtract == InitExtract /\ [][NextExtract]_vars

----------------------------------------------------------------------------
(* The section scans: TxtParser.parse on documents of up to MaxLines lines *)

MaxLines == 4
\* text.split: a text has one line at least
Documents == UNION { [1..n -> DocumentLines] : n \in 1..MaxLines }

InitSegment ==
    /\ pc = "segment"
    /\ document \in Documents
    /\ section_bodies = << >>
    /\ IdleDuration /\ IdleNormalizer /\ IdleMatch /\ IdleScore /\ IdleGrade /\ IdleExtract /\ IdleGap /\ IdleTotal /\ IdleApi /\ IdleProfile

\* TxtParser.parse: the four section scans
TxtParse ==
    /\ pc = "segment"
    /\ section_bodies' = SectionBodies(document)
    /\ pc' = "done"
    /\ UNCHANGED <<document, durVars, normVars, matchVars, scoreVars, gradeVars, extractVars, gapVars, totalVars, apiVars, profileVars>>

NextSegment == TxtParse

SpecSegment == InitSegment /\ [][NextSegment]_vars

----------------------------------------------------------------------------
(* Gap analysis and roadmap requests, for the ids of the job table and for *)
(* ids the table does not have                                             *)

UnknownRoles == { "", "astronaut", "Software_Engineer", "software engineer" }
TargetRoles == JobIds \cup UnknownRoles
GapProfiles ==
    { {}, {<<"P", "y", "t", "h", "o", "n">>}, {<<"P", "y", "t", "h", "o", "n">>, <<"S", "Q", "L">>}, {<<"P", "y", "t", "h", "o", "n">>, <<"J", "a", "v", "a">>, <<"S", "Q", "L">>, <<"G", "i", "t">>} }
CareerLevels == { "fresher", "mid" }

InitGap ==
    /\ pc = "gap"
    /\ requested_role \in TargetRoles
    /\ gap_skills \in GapProfiles
    /\ career_level \in CareerLevels
    /\ operation = ""
    /\ gap_result = << >>
    /\ IdleDuration /\ IdleNormalizer /\ IdleMatch /\ IdleScore /\ IdleGrade /\ IdleExtract /\ IdleSegment /\ IdleTotal /\ IdleApi /\ IdleProfile

\* SkillAnalyzer.calculate_skill_gap(profile, target_role)
CalculateSkillGapCall ==
    /\ pc = "gap"
    /\ operation' = "calculate_skill_gap"
    /\ gap_result' = CalculateSkillGap(gap_skills, requested_role)
    /\ pc' = "done"
    /\ UNCHANGED <<requested_role, gap_skills, career_level, durVars, normVars, matchVars, scoreVars, gradeVars, extractVars, segmentVars, totalVars, apiVars, profileVars>>

\* JobRecommender.get_skill_gap_analysis(skill_profile, target_job_id)
GetSkillGapAnalysisCall ==
    /\ pc = "gap"
    /\ operation' = "get_skill_gap_analysis"
    /\ gap_result' = GetSkillGapAnalysis(gap_skills, requested_role)
    /\ pc' = "done"
    /\ UNCHANGED <<requested_role, gap_skills, career_level, durVars, normVars, matchVars, scoreVars, gradeVars, extractVars, segmentVars, totalVars, apiVars, profileVars>>

\* JobRecommender.get_career_roadmap(skill_profile, experience_profile, target_job_id)
GetCareerRoadmapCall ==
    /\ pc = "gap"
    /\ operation' = "get_career_roadmap"
    /\ gap_result' = GetCareerRoadmap(gap_skills, career_level, requested_role)
    /\ pc' = "done"
    /\ UNCHANGED <<requested_role, gap_skills, career_level, durVars, normVars, matchVars, scoreVars, gradeVars, extractVars, segmentVars, totalVars, apiVars, profileVars>>

NextGap == CalculateSkillGapCall \/ GetSkillGapAnalysisCall \/ GetCareerRoadmapCall

SpecGap == InitGap /\ [][NextGap]_vars

----------------------------------------------------------------------------
(* Total years: _calculate_total_years on lists of up to MaxEntries        *)
(* experience entries, given by their duration texts                       *)

MaxEntries == 3
DurationSamples ==
    { <<Yr(2019), Dash, Yr(2021)>>, <<Mon("Jan"), Yr(2022), Dash, Now("Present")>>,
      <<Num(7), Unit("months")>>, <<Num(3), Unit("months")>>, <<Num(2), Unit("years")>>,
      <<Yr(2022), Dash, Yr(2019)>>, <<W("Contract")>>, << >> }
DurationLists == UNION { [1..n -> DurationSamples] : n \in 0..MaxEntries }

InitTotal ==
    /\ pc = "total"
    /\ durations \in DurationLists
    /\ current_year \in NowYears
    /\ duration = << >> /\ months = None
    /\ total_years = 0
    /\ IdleNormalizer /\ IdleMatch /\ IdleScore /\ IdleGrade /\ IdleExtract /\ IdleSegment /\ IdleGap /\ IdleApi /\ IdleProfile

\* ExperienceAnalyzer._calculate_total_years(experiences)
CalculateTotalYearsCall ==
    /\ pc = "total"
    /\ total_years' = CalculateTotalYears(durations, current_year)
    /\ pc' = "done"
    /\ UNCHANGED <<durations, durVars, normVars, matchVars, scoreVars, gradeVars, extractVars, segmentVars, gapVars, apiVars, profileVars>>

NextTotal == CalculateTotalYearsCall

SpecTotal == InitTotal /\ [][NextTotal]_vars
----------------------------------------------------------------------------
(* The request pipeline: ResumeIntelligenceAPI.analyze_resume on a PDF     *)
(* whose extracted text is blank and analyze_resume_text on texts without  *)
(* a section header, of up to MaxRequestLines lines; one API object        *)
(* answers up to MaxRequests requests                                      *)

MaxRequestLines == 3
MaxRequests == 2
PlainTexts == UNION { [1..n -> PlainLines] : n \in 1..MaxRequestLines }
Requests ==
    { [parser |-> "PDFParser", lines |-> t] : t \in { x \in PlainTexts : BlankText(x) } }
    \cup { [parser |-> "TextParser", lines |-> t] : t \in PlainTexts }
PlainFacts == [line \in PlainLines |-> LineFacts(line)]

\* SkillNormalizer.__init__ and QualityScorer.__init__: the fields set
AnalyzerState ==
    [reverse_mapping |-> [n \in { SKILL_ALIASES[k] : k \in DOMAIN SKILL_ALIASES } |->
                             ReverseMapping(n)],
     weights |-> SCORING_WEIGHTS]

InitApi ==
    /\ pc = "parse"
    /\ api_request \in Requests
    /\ api_resume_data = << >> /\ api_skill_profile = << >> /\ experience_profile = << >>
    /\ job_recommendations = << >> /\ api_resume_score = << >>
    /\ handled = 0
    /\ analyzer_state = AnalyzerState
    /\ current_year \in NowYears
    /\ duration = << >> /\ months = None
    /\ IdleNormalizer /\ IdleMatch /\ IdleScore /\ IdleGrade /\ IdleExtract /\ IdleSegment /\ IdleGap /\ IdleTotal /\ IdleProfile

\* self.parser.parse(Path(file_path)) on a PDF without text
ParsePdf ==
    /\ pc = "parse"
    /\ api_request.parser = "PDFParser"
    /\ api_resume_data' = PDFParserParseBlank(api_request.lines)
    /\ pc' = "analyze_skills"
    /\ UNCHANGED <<api_request, api_skill_profile, experience_profile, job_recommendations,
                   api_resume_score, handled, analyzer_state, durVars, normVars, matchVars,
                   scoreVars, gradeVars, extractVars, segmentVars, gapVars, totalVars, profileVars>>

\* self.parser.parse_text(text, file_type)
ParseRequestText ==
    /\ pc = "parse"
    /\ api_request.parser = "TextParser"
    /\ \E parsed \in {ParseTextExperiences(api_request.lines)} :
           api_resume_data' =
               TextParserParse(api_request.lines,
                               [i \in 1..Len(api_request.lines) |->
                                   PlainFacts[api_request.lines[i]]],
                               parsed)
    /\ pc' = "analyze_skills"
    /\ UNCHANGED <<api_request, api_skill_profile, experience_profile, job_recommendations,
                   api_resume_score, handled, analyzer_state, durVars, normVars, matchVars,
                   scoreVars, gradeVars, extractVars, segmentVars, gapVars, totalVars, profileVars>>

\* self.skill_analyzer.analyze_skills(resume_data)
AnalyzeSkillsStep ==
    /\ pc = "analyze_skills"
    /\ api_skill_profile' = AnalyzeSkills(api_resume_data)
    /\ api_resume_data' = ResumeDataAfterAnalyzeSkills(api_resume_data)
    /\ pc' = "analyze_experience"
    /\ UNCHANGED <<api_request, experience_profile, job_recommendations,
                   api_resume_score, handled, analyzer_state, durVars, normVars, matchVars,
                   scoreVars, gradeVars, extractVars, segmentVars, gapVars, totalVars, profileVars>>

\* self.experience_analyzer.analyze_experience(resume_data)
AnalyzeExperienceStep ==
    /\ pc = "analyze_experience"
    /\ experience_profile' = AnalyzeExperience(api_resume_data, current_year)
    /\ pc' = "recommend_jobs"
    /\ UNCHANGED <<api_request, api_resume_data, api_skill_profile, job_recommendations,
                   api_resume_score, handled, analyzer_state, durVars, normVars, matchVars,
                   scoreVars, gradeVars, extractVars, segmentVars, gapVars, totalVars, profileVars>>

\* self.job_recommender.recommend_jobs(skill_profile, experience_profile)
RecommendJobsStep ==
    /\ pc = "recommend_jobs"
    /\ job_recommendations' = RecommendJobsFor(api_skill_profile, DefaultTopN)
    /\ pc' = "score_resume"
    /\ UNCHANGED <<api_request, api_resume_data, api_skill_profile, experience_profile,
                   api_resume_score, handled, analyzer_state, durVars, normVars, matchVars,
                   scoreVars, gradeVars, extractVars, segmentVars, gapVars, totalVars, profileVars>>

\* self.quality_scorer.score_resume(resume_data, skill_profile); the
\* request is answered
ScoreResumeStep ==
    /\ pc = "score_resume"
    /\ api_resume_score' = ScoreResume(ScoredData(api_resume_data),
                                       ScoredProfile(api_skill_profile))
    /\ handled' = handled + 1
    /\ pc' = "answered"
    /\ UNCHANGED <<api_request, api_resume_data, api_skill_profile, experience_profile,
                   job_recommendations, analyzer_state, durVars, normVars, matchVars,
                   scoreVars, gradeVars, extractVars, segmentVars, gapVars, totalVars, profileVars>>

\* the next request to the same API object: the locals of the call are new
NextRequest ==
    /\ pc = "answered"
    /\ handled < MaxRequests
    /\ api_request' \in Requests
    /\ api_resume_data' = << >> /\ api_skill_profile' = << >> /\ experience_profile' = << >>
    /\ job_recommendations' = << >> /\ api_resume_score' = << >>
    /\ pc' = "parse"
    /\ UNCHANGED <<handled, analyzer_state, durVars, normVars, matchVars,
                   scoreVars, gradeVars, extractVars, segmentVars, gapVars, totalVars, profileVars>>

NextApi ==
    \/ ParsePdf \/ ParseRequestText \/ AnalyzeSkillsStep \/ AnalyzeExperienceStep
    \/ RecommendJobsStep \/ ScoreResumeStep \/ NextRequest

SpecApi == InitApi /\ [][NextApi]_vars

----------------------------------------------------------------------------
(* The skill profile of a resume *)

\* The skills a resume lists: up to MaxCollected of the samples, which are
\* aliases, names of the taxonomy and a token it does not know; a skill may
\* be listed twice
MaxCollected == 3
SkillSamples ==
    { <<"j", "s">>, <<"j", "a", "v", "a", "s", "c", "r", "i", "p", "t">>, <<"p", "y", "t", "h", "o", "n">>, <<"P", "y", "t", "h", "o", "n">>, <<"a", "w", "s">>, <<"r", "e", "a", "c", "t">>, <<"s", "q", "l">>, <<"T", "e", "a", "m", "w", "o", "r", "k">>, <<"f", "o", "o">> }
CollectedLists == UNION { [1..n -> SkillSamples] : n \in 0..MaxCollected }

InitProfile ==
    /\ pc = "analyze_skills"
    /\ collected_skills \in CollectedLists
    /\ built_profile = << >>
    /\ IdleDuration /\ IdleNormalizer /\ IdleMatch /\ IdleScore /\ IdleGrade /\ IdleExtract /\ IdleSegment /\ IdleGap /\ IdleTotal /\ IdleApi

\* SkillAnalyzer.analyze_skills(resume_data), resume_data.technical_skills
\* being collected_skills
BuildSkillProfile ==
    /\ pc = "analyze_skills"
    /\ \E all_skills_list \in
            Orderings({ NormalizeSkill(collected_skills[i]).normalized :
                          i \in 1..Len(collected_skills) }) :
           built_profile' = SkillProfileOf(all_skills_list, IdentifyPrimarySkills(all_skills_list))
    /\ pc' = "done"
    /\ UNCHANGED <<collected_skills, durVars, normVars, matchVars, scoreVars, gradeVars, extractVars, segmentVars, gapVars, totalVars, apiVars>>

NextProfile == BuildSkillProfile

SpecProfile == InitProfile /\ [][NextProfile]_vars

----------------------------------------------------------------------------
(* The experience profile: ExperienceAnalyzer.analyze_experience on resume *)
(* data with up to MaxCareerEntries experience entries                     *)

MaxCareerEntries == 2
CareerRoles ==
    { <<"S", "o", "f", "t", "w", "a", "r", "e", " ", "E", "n", "g", "i", "n", "e", "e", "r">>, <<"S", "e", "n", "i", "o", "r", " ", "E", "n", "g", "i", "n", "e", "e", "r">>, <<"J", "u", "n", "i", "o", "r", " ", "D", "e", "v", "e", "l", "o", "p", "e", "r">>, <<"S", "r", " ", "A", "s", "s", "o", "c", "i", "a", "t", "e">> }
CareerEntries ==
    { Experience(role, <<"T", "e", "c", "h", " ", "C", "o", "r", "p">>, duration_text, << >>) :
        role \in CareerRoles, duration_text \in DOMAIN DurationTokens }
CareerData ==
    { [NewResumeData(<< >>, "txt") EXCEPT !.experiences = entries] :
        entries \in UNION { [1..n -> CareerEntries] : n \in 0..MaxCareerEntries } }

InitCareer ==
    /\ pc = "analyze_experience"
    /\ api_request = << >>
    /\ api_resume_data \in CareerData
    /\ api_skill_profile = << >> /\ experience_profile = << >>
    /\ job_recommendations = << >> /\ api_resume_score = << >>
    /\ handled = 0
    /\ analyzer_state = AnalyzerState
    /\ current_year \in NowYears
    /\ duration = << >> /\ months = None
    /\ IdleNormalizer /\ IdleMatch /\ IdleScore /\ IdleGrade /\ IdleExtract /\ IdleSegment /\ IdleGap /\ IdleTotal /\ IdleProfile

NextCareer == AnalyzeExperienceStep

SpecCareer == InitCareer /\ [][NextCareer]_vars
----------------------------------------------------------------------------
(* Claims *)

IsYearRange(d) ==
    /\ Len(d) = 3
    /\ d[1].t = "year" /\ d[1].n \in YearLo..YearHi
    /\ d[2] = Dash
    /\ d[3].t = "year" /\ d[3].n \in YearLo..YearHi

\* C1: for every year range "start - end" of years in 1900..2099 the parser
\* returns (end - start) * 12 when end >= start and 0 when end < start,
\* never a negative number and never None.
C1_YearRangeMonths ==
    (pc = "done" /\ IsYearRange(duration)) =>
        /\ months.some
        /\ months.v >= 0
        /\ months.v = IF duration[3].n >= duration[1].n
                      THEN (duration[3].n - duration[1].n) * 12
                      ELSE 0

\* a reversed range has been parsed, and one in order
C1_Witness ==
    /\ pc = "done"
    /\ duration = <<Yr(2020), Dash, Yr(2018)>>
    /\ months = Some(0)


\* C2: normalization is idempotent: normalizing the normalized name of any
\* skill string gives the same normalized name, category, confidence and
\* is_alias flag as normalizing the string.
C2_Idempotent ==
    pc = "done" =>
        /\ renormalized_skill.normalized = normalized_skill.normalized
        /\ renormalized_skill.category = normalized_skill.category
        /\ renormalized_skill.confidence = normalized_skill.confidence
        /\ renormalized_skill.is_alias = normalized_skill.is_alias



\* C3: the match score of every job of the table, for every candidate skill
\* set, lies in [0, 1] (0..100 hundredths).
C3_MatchScoreInUnitInterval ==
    \A i \in 1..Len(match_results) :
        /\ match_results[i].skill_match_percentage >= 0
        /\ match_results[i].skill_match_percentage <= 100


\* C4: the list recommend_jobs returns is in non-increasing order of match
\* score, holds only scores of at least 0.2, names no job twice and has at
\* most top_n entries.
C4_Recommendations ==
    pc = "done" =>
        /\ Len(recommendations) <= top_n
        /\ \A i \in 1..Len(recommendations) : recommendations[i].match_score >= 20
        /\ \A i, j \in 1..Len(recommendations) :
              i < j => /\ recommendations[i].match_score >= recommendations[j].match_score
                       /\ recommendations[i].job_id # recommendations[j].job_id

\* more jobs reached the threshold than top_n, some job failed it, and the
\* best match is not the first such job of the table
C4_Witness ==
    /\ pc = "done"
    /\ top_n >= 2
    /\ Len(recommendations) = top_n
    /\ Cardinality({ i \in 1..Len(match_results) :
                       match_results[i].skill_match_percentage >= 20 }) > top_n
    /\ \E i \in 1..Len(match_results) : match_results[i].skill_match_percentage < 20
    /\ recommendations[1].match_score > recommendations[2].match_score
    /\ \E i \in 1..Len(match_results) :
          /\ match_results[i].skill_match_percentage >= 20
          /\ \A k \in 1..(i - 1) : match_results[k].skill_match_percentage < 20
          /\ match_results[i].job_id # recommendations[1].job_id


\* C5: each of the six sub-scores of score_resume and the overall score lie
\* in [0, 100].
C5_ScoresInRange ==
    pc = "done" =>
        \A s \in { resume_score.skill_relevance_score, resume_score.experience_clarity_score,
                   resume_score.keyword_optimization_score,
                   resume_score.structure_readability_score,
                   resume_score.completeness_score, resume_score.ats_compatibility_score,
                   resume_score.overall_score } :
            s >= 0 /\ s <= Pts(100)


GradeOrder == <<"D", "C", "C+", "B", "B+", "A", "A+">>
GradeRank(g) == CHOOSE i \in 1..Len(GradeOrder) : GradeOrder[i] = g
StepGrade(s) ==
    GradeOrder[1 + Cardinality({ i \in 1..Len(GradeSteps) : s >= Pts(GradeSteps[i]) })]

\* C6: the grade is a monotonic step function of the overall score: of two
\* scores a <= b the grade of b is at least the grade of a in the order
\* D < C < C+ < B < B+ < A < A+, and the grade rises at 40, 50, 60, 70, 80
\* and 90 and nowhere else.
C6_GradeMonotonicSteps ==
    pc = "done" =>
        /\ grades[1] = StepGrade(overall_scores[1])
        /\ grades[2] = StepGrade(overall_scores[2])
        /\ overall_scores[1] <= overall_scores[2] =>
              GradeRank(grades[1]) <= GradeRank(grades[2])

\* two scores on either side of the step at 70 have been graded B and B+
C6_Witness ==
    /\ pc = "done"
    /\ overall_scores = <<Pts(70) - 1, Pts(70)>>
    /\ grades = <<"B", "B+">>


\* the lines between the opening of the text and its closing, if it has one
SectionBody ==
    LET closed == /\ Len(text) >= Len(Opening) + Len(Closing)
                  /\ SubSeq(text, Len(text) - Len(Closing) + 1, Len(text)) = Closing
    IN  SubSeq(text, Len(Opening) + 1,
               IF closed THEN Len(text) - Len(Closing) ELSE Len(text))
EntryOfRoleLine(line) == CHOOSE e \in RoleEntries : RoleLine(e) = line

\* the body as pairs of lines, a role line and a date line in the same order
\* in every pair
PairsOf(body, roleAt, dateAt) ==
    /\ Len(body) >= 2
    /\ Len(body) % 2 = 0
    /\ \A k \in 1..(Len(body) \div 2) :
          body[2 * k - 2 + roleAt] \in RoleLines /\ body[2 * k - 2 + dateAt] \in DateLines
PairEntries(body, roleAt, dateAt) ==
    [k \in 1..(Len(body) \div 2) |->
        [role |-> EntryOfRoleLine(body[2 * k - 2 + roleAt]).role,
         company |-> EntryOfRoleLine(body[2 * k - 2 + roleAt]).company,
         duration |-> body[2 * k - 2 + dateAt]]]
SameEntries(found, expected) ==
    /\ Len(found) = Len(expected)
    /\ \A k \in 1..Len(expected) :
          /\ found[k].role = expected[k].role
          /\ found[k].company = expected[k].company
          /\ found[k].duration = expected[k].duration

\* C7: a role line and its duration line may come in either order: of a
\* section body of entries written duration-then-role, and of one written
\* role-then-duration, the extractor of TxtParser emits every entry, each
\* with the role, company and duration of the same source entry.
C7_EitherOrder ==
    (pc = "done" /\ parser = "TxtParser") =>
        /\ PairsOf(SectionBody, 1, 2) =>
              SameEntries(experiences, PairEntries(SectionBody, 1, 2))
        /\ PairsOf(SectionBody, 2, 1) =>
              SameEntries(experiences, PairEntries(SectionBody, 2, 1))


\* the body as blocks: a role line, a date line, then bullets
RECURSIVE BlocksOf(_, _, _)
BlocksOf(body, i, blocks) ==
    IF i > Len(body) THEN Some(blocks)
    ELSE IF i < Len(body) /\ body[i] \in RoleLines /\ body[i + 1] \in DateLines
    THEN LET bullets == UNION { ToSet(b) : b \in BulletLists }
             last == CHOOSE j \in (i + 1)..Len(body) :
                        /\ \A k \in (i + 2)..j : body[k] \in bullets
                        /\ j < Len(body) => body[j + 1] \notin bullets
         IN  BlocksOf(body, last + 1,
                 Append(blocks, [role |-> EntryOfRoleLine(body[i]).role,
                                 company |-> EntryOfRoleLine(body[i]).company,
                                 duration |-> body[i + 1],
                                 bullets |-> SubSeq(body, i + 2, last)]))
    ELSE None

\* C8: of a section body of k >= 1 blocks, each a role line, a date line and
\* bullets, either extractor yields exactly k entries in the order of the
\* text, the i-th with the role and company of the i-th role line, the i-th
\* date line as duration and the bullets of the i-th block as description.
C8_BlocksYieldEntries ==
    LET blocks == BlocksOf(SectionBody, 1, << >>)
    IN  (pc = "done" /\ blocks.some /\ Len(SectionBody) > 0) =>
            /\ SameEntries(experiences, blocks.v)
            /\ \A k \in 1..Len(blocks.v) :
                  Strip(experiences[k].description) = JoinLines(blocks.v[k].bullets)


\* C9: the body of the experience section of TxtParser is every line after
\* the first line that matches the headers of the section, up to the first
\* later line that matches the headers of another section or the end of the
\* text; a later line that matches the section's own headers neither closes
\* the section nor discards the lines collected before it.
C9_SectionBody ==
    LET Own(line) == Matches(line).section_header
        Other(line) == Matches(line).other_section /\ ~Own(line)
        NotOwn(line) == ~Own(line)
        first == CHOOSE i \in 1..Len(text) : Own(text[i]) /\ \A j \in 1..(i - 1) : ~Own(text[j])
        ends == { j \in (first + 1)..Len(text) : Other(text[j]) } \cup { Len(text) + 1 }
        end == CHOOSE j \in ends : \A k \in ends : j <= k
    IN  (pc = "done" /\ parser = "TxtParser") =>
            exp_lines = SelectSeq(SubSeq(text, first + 1, end - 1), NotOwn)


\* the lines that name a section but have a colon or 30 characters or more
GuardedLines ==
    { line \in ToSet(Opening) \cup ToSet(Closing) \cup BodyLines :
        /\ AnyIn(section_headers \o other_sections \o experience_keywords \o education_keywords,
                 line)
        /\ ":" \in ToSet(line) \/ Len(line) >= 30 }

\* C10: on either extraction path a line that contains a section keyword
\* and also a colon, or is 30 characters long or longer, neither opens nor
\* closes a section: the section is open after the line exactly if it was
\* open before it.
C10_GuardedLineKeepsSection ==
    pc = "done" =>
        \A i \in 1..Len(text) :
            text[i] \in GuardedLines =>
                section_open[i] = (IF i = 1 THEN FALSE ELSE section_open[i - 1])


\* C11: the bodies the four section scans of TxtParser collect never share
\* a line: every non-empty line of the document is in the body of at most
\* one of the experience, education, certifications and projects sections.
C11_SectionsDisjoint ==
    pc = "done" =>
        \A a \in SectionNames : \A b \in SectionNames \ {a} :
            \A i \in ToSet(section_bodies[a]) \cap ToSet(section_bodies[b]) :
                document[i] = << >>


\* C12: normalize assigns the confidence by the outcome of the lookup: 1.0
\* when the stripped lower-case input is a key of the alias table, 0.95 when
\* it is not and its capitalized form is a canonical name of the taxonomy
\* (compared in lower case), and 0.5 with the category "unknown" otherwise.
C12_ConfidenceByLookup ==
    LET skill_lower == Strip(Lower(skill))
        canonical == \E n \in CanonicalNames : Lower(n) = Lower(CapitalizeSkill(skill))
    IN  pc \in {"renormalize", "done"} =>
            IF skill_lower \in DOMAIN SKILL_ALIASES
            THEN normalized_skill.confidence = 100
            ELSE IF canonical
            THEN normalized_skill.confidence = 95
            ELSE normalized_skill.confidence = 50 /\ normalized_skill.category = "unknown"


\* the categories of the taxonomy that list a name, compared in lower case
CategoriesOf(name) ==
    { SKILL_CATEGORIES[c].category : c \in
        { c \in 1..Len(SKILL_CATEGORIES) :
            \E j \in 1..Len(SKILL_CATEGORIES[c].skills) :
                Lower(SKILL_CATEGORIES[c].skills[j]) = Lower(name) } }

\* C13: every canonical skill name of SKILL_CATEGORIES belongs to exactly
\* one category, compared in lower case as _get_category compares: the
\* category normalize reports for a canonical name is the only category
\* that lists the name.
C13_OneCategoryPerName ==
    (pc \in {"renormalize", "done"} /\ skill \in CanonicalNames) =>
        CategoriesOf(skill) = {normalized_skill.category}


\* |matched| / |required| + 0.3 * (critical_matched - 0.5 * critical_missing)
\* / |critical| + 0.2 * related_boost, clamped to [0, 1]; in units of
\* 1 / MatchScale, in which every term is a whole number
ClaimedMatchScore(job, candidate) ==
    LET required == ToSet(LowerSkills[job.job_id].required_skills)
        critical == ToSet(LowerSkills[job.job_id].critical_skills)
        matched == candidate \cap required
        critical_matched == Cardinality(critical \cap matched)
        critical_missing == Cardinality(critical \cap (required \ candidate))
        related == Cardinality({ r \in required :
                                   /\ r \in DOMAIN related_mapping
                                   /\ related_mapping[r] \cap candidate # {} })
        sum == (Cardinality(matched) * MatchScale) \div Cardinality(required)
               + (IF critical = {} THEN 0
                  ELSE ((2 * critical_matched - critical_missing) * 3 * MatchScale)
                          \div (20 * Cardinality(critical)))
               + (Min(related, 3) * MatchScale) \div 50
    IN  Max(0, Min(MatchScale, sum))

\* C14: the match score reported for every job equals the clamp to [0, 1]
\* of |matched|/|required| + 0.3 * (critical_matched - 0.5 *
\* critical_missing) / |critical_skills| + 0.2 * related_boost, the boost
\* being 0.1 for each required skill with a related skill of the candidate,
\* at most 0.3.
C14_MatchScoreFormula ==
    pc = "done" =>
        \A i \in 1..Len(JOB_ROLES) :
            match_results[i].skill_match_percentage * (MatchScale \div 100)
                = ClaimedMatchScore(JOB_ROLES[i], { Lower(s) : s \in all_skills })


\* C15: for every job id that is not a key of the job table, each of
\* calculate_skill_gap, get_skill_gap_analysis and get_career_roadmap
\* returns a result whose only field is error = "Unknown role: <id>", with
\* the id that was asked for.
C15_UnknownRoleError ==
    (pc = "done" /\ requested_role \notin JobIds) =>
        gap_result = [error |-> "Unknown role: " \o requested_role]


\* the months the entries with a parsed duration contribute
RECURSIVE ParsedMonths(_, _)
ParsedMonths(texts, now) ==
    IF Len(texts) = 0 THEN 0
    ELSE (IF ParseDurationText(Head(texts), now).some
          THEN ParseDurationText(Head(texts), now).v ELSE 0)
         + ParsedMonths(Tail(texts), now)

\* C16: an entry whose duration text no rule of the parser matches
\* contributes no month, and the total is the sum of the parsed months of
\* the other entries divided by 12, rounded to one decimal: the total, in
\* tenths of a year, is at most half a tenth away from the quotient.
C16_TotalYears ==
    pc = "done" =>
        LET exact == ParsedMonths(durations, current_year) * 10
        IN  /\ total_years * 12 - exact <= 6
            /\ exact - total_years * 12 <= 6

\* an entry without a parsed duration among entries that have one, and a
\* total that is not a whole number of tenths before rounding
C16_Witness ==
    /\ pc = "done"
    /\ Len(durations) >= 2
    /\ \E i \in 1..Len(durations) : ~ParseDurationText(durations[i], current_year).some
    /\ ParsedMonths(durations, current_year) > 0
    /\ (ParsedMonths(durations, current_year) * 10) % 12 # 0


\* C17: for a document without a section header, or whose extracted text is
\* empty, the pipeline runs to its end and the answer has no experience and
\* no education entry, 0 total years, the career level fresher, no
\* leadership, no job recommendation, and every sub-score at the least value
\* its scoring function gives (0 for skill relevance, keyword optimization
\* and completeness, 20 for experience clarity, 50 for structure, 70 for ATS
\* compatibility).
C17_EmptyDocumentAtFloor ==
    pc = "answered" =>
        /\ api_resume_data.experiences = << >>
        /\ api_resume_data.education = << >>
        /\ experience_profile.total_years = 0
        /\ experience_profile.career_level = "fresher"
        /\ ~experience_profile.leadership_experience
        /\ job_recommendations = << >>
        /\ api_resume_score.skill_relevance_score = Pts(0)
        /\ api_resume_score.experience_clarity_score = Pts(20)
        /\ api_resume_score.keyword_optimization_score = Pts(0)
        /\ api_resume_score.structure_readability_score = Pts(50)
        /\ api_resume_score.completeness_score = Pts(0)
        /\ api_resume_score.ats_compatibility_score = Pts(70)


\* C18: the overall score is 0.25 * skill relevance + 0.25 * experience
\* clarity + 0.20 * keyword optimization + 0.20 * structure + 0.10 *
\* completeness, the five weights add up to 1, and the ATS score has no part
\* in it: the same resume with every header and action verb in its text, or
\* with none of them, which changes the ATS score alone, gets the same
\* overall score and the same grade.
C18_OverallIsWeightedSum ==
    /\ SCORING_WEIGHTS.skill_relevance + SCORING_WEIGHTS.experience_clarity
       + SCORING_WEIGHTS.keyword_optimization + SCORING_WEIGHTS.structure_readability
       + SCORING_WEIGHTS.completeness = 100
    /\ DOMAIN SCORING_WEIGHTS = {"skill_relevance", "experience_clarity",
                                 "keyword_optimization", "structure_readability",
                                 "completeness"}
    /\ pc = "done" =>
        /\ resume_score.overall_score * 100
              = 25 * resume_score.skill_relevance_score
                + 25 * resume_score.experience_clarity_score
                + 20 * resume_score.keyword_optimization_score
                + 20 * resume_score.structure_readability_score
                + 10 * resume_score.completeness_score
        /\ \A hv \in HeaderVerbEnds :
              LET other == ScoreResume(
                               [resume_data EXCEPT
                                   !.raw_text = (@ \ Greatest(HeaderVerbSets)) \cup hv],
                               skill_profile)
              IN  /\ other.overall_score = resume_score.overall_score
                  /\ GetGrade(other.overall_score) = GetGrade(resume_score.overall_score)

\* a resume has been scored whose ATS score is 100 and, with no header and
\* no action verb in its text, would be less, while the five other scores
\* are positive
C18_Witness ==
    /\ pc = "done"
    /\ resume_score.ats_compatibility_score = Pts(100)
    /\ ScoreAtsCompatibility([resume_data EXCEPT !.raw_text = @ \ Greatest(HeaderVerbSets)])
          < Pts(100)
    /\ resume_score.skill_relevance_score > 0
    /\ resume_score.keyword_optimization_score > 0
    /\ resume_score.completeness_score > 0


\* the answer a new API object gives to a request
OwnAnswer(request, now) ==
    LET data == IF request.parser = "PDFParser"
                THEN PDFParserParseBlank(request.lines)
                ELSE TextParserParse(request.lines,
                                     [i \in 1..Len(request.lines) |->
                                         PlainFacts[request.lines[i]]],
                                     ParseTextExperiences(request.lines))
        profile == AnalyzeSkills(data)
    IN  [resume_data |-> data, skill_profile |-> profile,
         experience_profile |-> AnalyzeExperience(data, now),
         job_recommendations |-> RecommendJobsFor(profile, DefaultTopN),
         resume_score |-> ScoreResume(ScoredData(data), ScoredProfile(profile))]

RECURSIVE EntryStates(_, _, _)
EntryStates(body, i, st) ==
    IF i > Len(body) THEN <<st>>
    ELSE <<st>> \o EntryStates(body, i + 1, ParseEntryLine(st, Matches(body[i]).entry))
CompleteEntry(st) == st.current_exp.role # << >> /\ st.current_exp.duration # << >>

\* C20: in TxtParser._extract_experiences, when the current entry has a role
\* and a duration, each later line either leaves its role and duration as
\* they are or is the start of an entry and appends the current entry with
\* that role and that duration to the result, and at the end of the section
\* the entry is appended with them.
C20_CompleteEntryKept ==
    (pc = "done" /\ parser = "TxtParser") =>
        LET states == EntryStates(exp_lines, 1, [current_exp |-> NoEntry, pending_role |-> None,
                                                 experiences |-> << >>])
            Emitted(list, st) ==
                /\ Len(list) = Len(st.experiences) + 1
                /\ list[Len(list)].role = st.current_exp.role
                /\ list[Len(list)].duration = st.current_exp.duration
        IN  /\ \A i \in 1..(Len(states) - 1) :
                  CompleteEntry(states[i]) =>
                      \/ Emitted(states[i + 1].experiences, states[i])
                      \/ /\ states[i + 1].experiences = states[i].experiences
                         /\ states[i + 1].current_exp.role = states[i].current_exp.role
                         /\ states[i + 1].current_exp.duration = states[i].current_exp.duration
            /\ CompleteEntry(states[Len(states)]) => Emitted(experiences, states[Len(states)])


\* the states of the loop over the lines the extractor has collected
LoopStates ==
    EntryStates(exp_lines, 1, [current_exp |-> NoEntry, pending_role |-> None,
                               experiences |-> << >>])
\* line i of exp_lines is read with a pending role and leaves it pending
KeepsPending(states, i) ==
    /\ states[i].pending_role.some
    /\ states[i + 1].pending_role = states[i].pending_role
    /\ Matches(exp_lines[i]).entry.line # << >>

\* C21: in TxtParser._extract_experiences a pending role is kept across at
\* most one line that is not blank, the next duration line attaches it, and
\* a line with a role and a date range, which starts an entry of its own,
\* does not leave it pending for a later entry.
C21_PendingRoleBounded ==
    (pc = "done" /\ parser = "TxtParser") =>
        LET states == LoopStates
        IN  /\ \A i \in 1..Len(exp_lines) :
                  /\ (states[i].pending_role.some /\ Matches(exp_lines[i]).entry.date_match
                      /\ ~Matches(exp_lines[i]).entry.inline_date_match.some)
                        => /\ states[i + 1].pending_role = None
                           /\ states[i + 1].current_exp.role = states[i].pending_role.v.role
                  /\ Matches(exp_lines[i]).entry.inline_date_match.some
                        => ~KeepsPending(states, i)
            /\ \A i \in 1..(Len(exp_lines) - 1) :
                  ~(KeepsPending(states, i) /\ KeepsPending(states, i + 1))


\* role is the text of the line before a dash that a date range follows
BeforeDateRange(line, role) ==
    \E g \in 1..Len(line) :
        /\ role = Strip(SubSeq(line, 1, g))
        /\ DatePattern1(Lower(line),
               Rep0(Lower(line), Lit(Lower(line), Rep0(Lower(line), {g + 1}, Spaces), {<<"-">>}),
                    Spaces)) # {}

\* C22: in TxtParser._extract_experiences a line that is a role, a dash and
\* a date range (it matches the inline pattern, and the role/company
\* pattern with it) is handled by the inline rule: after it the current
\* entry is a new one whose role is the text before the date range, whose
\* duration is the line and which has no company, and the line is not made
\* the pending role.
C22_InlineDateWins ==
    (pc = "done" /\ parser = "TxtParser") =>
        LET states == LoopStates
        IN  \A i \in 1..Len(exp_lines) :
                LET m == Matches(exp_lines[i]).entry
                IN  (m.inline_date_match.some /\ m.role_match.some) =>
                        /\ BeforeDateRange(m.line, states[i + 1].current_exp.role)
                        /\ states[i + 1].current_exp.duration = m.line
                        /\ states[i + 1].current_exp.company = << >>
                        /\ states[i + 1].current_exp.description = << >>
                        /\ states[i + 1].pending_role = states[i].pending_role

\* the line "Engineer - Jan 2020 - Present" has been read after a role line
\* and the entry Engineer with the line as its duration is in the result
C22_Witness ==
    /\ pc = "done"
    /\ parser = "TxtParser"
    /\ \E i \in 2..Len(exp_lines) :
           /\ exp_lines[i] = <<"E", "n", "g", "i", "n", "e", "e", "r", " ", "-", " ", "J", "a", "n", " ", "2", "0", "2", "0", " ", "-", " ", "P", "r", "e", "s", "e", "n", "t">>
           /\ exp_lines[i - 1] \in RoleLines
    /\ \E k \in 1..Len(experiences) :
           /\ experiences[k].role = <<"E", "n", "g", "i", "n", "e", "e", "r">>
           /\ experiences[k].duration = <<"E", "n", "g", "i", "n", "e", "e", "r", " ", "-", " ", "J", "a", "n", " ", "2", "0", "2", "0", " ", "-", " ", "P", "r", "e", "s", "e", "n", "t">>
           /\ experiences[k].company = << >>

\* C23: in TxtParser._extract_experiences a line that starts with a bullet
\* marker changes nothing but the description of the current entry, to
\* which it is appended: the result list, the role, the company and the
\* duration of the current entry and the pending role stay as they were.
C23_BulletOnlyDescribes ==
    (pc = "done" /\ parser = "TxtParser") =>
        LET states == LoopStates
        IN  \A i \in 1..Len(exp_lines) :
                LET m == Matches(exp_lines[i]).entry
                IN  m.is_bullet =>
                        /\ states[i + 1].experiences = states[i].experiences
                        /\ states[i + 1].pending_role = states[i].pending_role
                        /\ states[i + 1].current_exp =
                              [states[i].current_exp EXCEPT !.description = @ \o m.line \o <<" ">>]


\* C24: every experience entry that TxtParser._extract_experiences or
\* ResumeParser.parse_text gives has a description of at most 500
\* characters.
C24_DescriptionAtMost500 ==
    pc = "done" => \A k \in 1..Len(experiences) : Len(experiences[k].description) <= 500


\* the role comes from the line: it is the line, its part before the dash
\* or its part before the date range
RoleFrom(line, role) ==
    LET m == Matches(line).entry
    IN  \/ m.line = role
        \/ m.role_match.some /\ m.role_match.v.role = role
        \/ m.inline_date_match.some /\ Strip(m.inline_date_match.v) = role

\* C25: no experience entry that TxtParser._extract_experiences or
\* ResumeParser.parse_text gives has an empty role and an empty description;
\* the entries of TxtParser have a role each, and their roles come from
\* lines of the section in the order of the entries.
C25_NoEmptyEntry ==
    pc = "done" =>
        /\ \A k \in 1..Len(experiences) :
               ~(experiences[k].role = << >> /\ experiences[k].description = << >>)
        /\ parser = "TxtParser" =>
               /\ \A k \in 1..Len(experiences) : experiences[k].role # << >>
               /\ \E f \in [1..Len(experiences) -> 1..Len(exp_lines)] :
                      /\ \A k \in 1..Len(experiences) : RoleFrom(exp_lines[f[k]], experiences[k].role)
                      /\ \A j, k \in 1..Len(experiences) : j < k => f[j] < f[k]


\* C26: _parse_duration values a text by the first of its four rules that
\* matches: a text with a date range and a count of years or months has the
\* value of the date range, a text without a date range has the value of
\* its count of years, else of its count of months, and the rule for a
\* bare range of years gives the value only when the first three rules
\* give none.
C26_FirstRuleDecides ==
    pc = "done" =>
        LET date_range == SearchFrom(DateAt, duration, 1)
            years == SearchFrom(YearsAt, duration, 1)
            month_count == SearchFrom(MonthsAt, duration, 1)
        IN  /\ (date_range # 0 /\ (years # 0 \/ month_count # 0)) =>
                   months = DateRangeMonths(duration, current_year)
            /\ (date_range = 0 /\ years # 0) => months = Some(duration[years].n * 12)
            /\ (date_range = 0 /\ years = 0 /\ month_count # 0) =>
                   months = Some(duration[month_count].n)
            /\ (months # None /\ months = YearRangeMonths(duration)
                /\ months # DateRangeMonths(duration, current_year)) =>
                   (DateRangeMonths(duration, current_year) = None /\ years = 0 /\ month_count = 0)


\* the names of a list of scored skills
SkillNames(scored) == [i \in 1..Len(scored) |-> scored[i].skill]
NoDuplicates(s) == \A i, j \in 1..Len(s) : s[i] = s[j] => i = j

\* C27: in the profile analyze_skills builds, all_skills has no duplicates,
\* primary_skills and secondary_skills together list each name of
\* all_skills once and no other name, and no secondary skill has a higher
\* score than a primary skill.
C27_PrimarySecondaryPartition ==
    pc = "done" =>
        LET listed == SkillNames(built_profile.primary_skills)
                          \o SkillNames(built_profile.secondary_skills)
        IN  /\ NoDuplicates(built_profile.all_skills)
            /\ NoDuplicates(listed)
            /\ ToSet(listed) = ToSet(built_profile.all_skills)
            /\ \A i \in 1..Len(built_profile.primary_skills) :
                   \A j \in 1..Len(built_profile.secondary_skills) :
                       built_profile.primary_skills[i].score
                           >= built_profile.secondary_skills[j].score


\* the levels in their order
LevelOrder == <<"fresher", "junior", "mid-level", "senior", "lead", "architect">>
LevelRank(level) == CHOOSE i \in 1..Len(LevelOrder) : LevelOrder[i] = level
\* some role title has one of the keywords
TitleHas(entries, keywords) ==
    \E i \in 1..Len(entries) : \E k \in keywords : Contains(Lower(entries[i].role), k)
\* the level of the years, in tenths: below 1, 3, 5, 8, 10 years and from
\* 10 years on
LevelOfYears(tenths) ==
    LevelOrder[1 + Cardinality({ t \in {10, 30, 50, 80, 100} : tenths >= t })]

\* C28: the career level analyze_experience gives is one of the six levels;
\* it is fresher when there are no experiences, senior when a title has a
\* senior keyword and none a junior keyword, junior when a title has a
\* junior keyword and none a senior keyword, and else the level of the
\* total years, which does not fall when the years grow.
C28_CareerLevel ==
    pc = "recommend_jobs" =>
        LET entries == api_resume_data.experiences
            senior == TitleHas(entries, SENIOR_KEYWORDS)
            junior == TitleHas(entries, JUNIOR_KEYWORDS)
        IN  /\ experience_profile.career_level \in ToSet(LevelOrder)
            /\ experience_profile.career_level =
                  IF Len(entries) = 0 THEN "fresher"
                  ELSE IF senior /\ ~junior THEN "senior"
                  ELSE IF junior /\ ~senior THEN "junior"
                  ELSE LevelOfYears(experience_profile.total_years)
            /\ \A y \in 0..experience_profile.total_years :
                  LevelRank(DetermineCareerLevel(y))
                      <= LevelRank(DetermineCareerLevel(experience_profile.total_years))

\* a resume whose titles do not decide, with eight years of experience, is
\* given the level lead
C28_Witness ==
    /\ pc = "recommend_jobs"
    /\ Len(api_resume_data.experiences) = MaxCareerEntries
    /\ ~TitleHas(api_resume_data.experiences, SENIOR_KEYWORDS)
    /\ experience_profile.total_years = 80
    /\ experience_profile.career_level = "lead"


\* C29: in every match result of recommend_jobs the critical skills of the
\* role are counted as matched or as missing, critical_matched +
\* critical_missing being their number, and for a candidate who holds all
\* of them critical_matched is their number and critical_missing is 0, which
\* makes the critical component 1.
C29_CriticalCounted ==
    pc = "done" =>
        \A i \in 1..Len(JOB_ROLES) :
            LET critical_skills == LowerSkills[JOB_ROLES[i].job_id].critical_skills
            IN  /\ match_results[i].critical_matched + match_results[i].critical_missing
                      = Len(critical_skills)
                /\ ToSet(critical_skills) \subseteq { Lower(s) : s \in all_skills } =>
                      /\ match_results[i].critical_matched = Len(critical_skills)
                      /\ match_results[i].critical_missing = 0


\* C30: the skill-relevance score score_resume gives to a profile is at
\* least the score the same resume gets with any profile of fewer skills.
C30_SkillRelevanceMonotone ==
    (pc = "done" /\ skill_profile.some) =>
        \A fewer \in 0..skill_profile.v.all_skills :
            ScoreSkillRelevance(resume_data, Some([all_skills |-> fewer]))
                <= resume_score.skill_relevance_score
====
